---- MODULE Spec2Model ----
(***************************************************************************)
(* Verification model of the trading core of CT-package:                   *)
(*   - TradingEngine (src/trading_engine/engine.py): market-condition      *)
(*     score, trading-activity hysteresis, order execution and the         *)
(*     active-trade registry;                                              *)
(*   - DynamicStopLossModule (src/trading_engine/dynamic_stop_loss.py);    *)
(*   - the strategy state machines (src/trading_engine/strategies).        *)
(*                                                                         *)
(* Floating-point quantities are modelled in fixed point: a value x is the *)
(* integer x * FP with truncation toward zero, together with the IEEE      *)
(* special values (nan, +inf, -inf) that the code can produce by dividing  *)
(* by zero or by aggregating over too few rows.                            *)
(***************************************************************************)
EXTENDS Integers, Sequences, FiniteSets, TLC

VARIABLES
    \* ---- TradingEngine (engine.py) ----
    trading_mode,                \* 'paper' | 'live'
    market_condition_score,      \* self.market_condition_score
    is_trading_active,           \* self.is_trading_active
    min_market_condition_score,  \* self.min_market_condition_score
    auto_resume_threshold,       \* self.auto_resume_threshold
    active_trades,               \* self.active_trades: order id -> trade record
    now,                         \* time.time(), in seconds
    engine_ret,                  \* observation of the last Engine call
    \* ---- DynamicStopLossModule (dynamic_stop_loss.py) ----
    initial_stop_loss_pct,       \* self.initial_stop_loss_pct
    trailing_stop_pct,           \* self.trailing_stop_pct (0 models None)
    time_based_adjustment,       \* self.time_based_adjustment
    volatility_based_adjustment, \* self.volatility_based_adjustment
    sl_positions,                \* self.positions: position id -> position
    sl_order,                    \* insertion order of the keys of self.positions
    breakeven_moves,             \* history: breakeven migrations of the position
                                 \* last registered under each id
    sl_ret,                      \* observation of the last module call
    \* ---- the strategy attached to the Engine (strategies/) ----
    strategy,                    \* which of the six strategies it is
    active_position,             \* momentum, scalping, swing: 'long' or None
    position_entry_time,         \* self.position_entry_time (PyNone for None)
    position_entry_price,        \* self.position_entry_price
    stop_loss_price,             \* self.stop_loss_price (momentum, swing)
    take_profit_price,           \* self.take_profit_price (momentum, swing)
    positions,                   \* DCA: self.positions
    last_investment_time,        \* DCA: self.last_investment_time
    take_profit_pct,             \* DCA: self.take_profit_pct (0 models None)
    lower_price,                 \* grid: self.lower_price
    upper_price,                 \* grid: self.upper_price
    grid_prices,                 \* grid: self.grid_prices
    grid_orders,                 \* grid: self.grid_orders
    last_rebalance_time,         \* grid: self.last_rebalance_time
    last_grid_change,            \* history: time of the last check_and_rebalance
                                 \* call that changed the grid (0 before any)
    live_orders,                 \* orders the exchange has accepted (live mode)
    st_ret                       \* observation of the last strategy call

engineVars == <<trading_mode, market_condition_score, is_trading_active,
                min_market_condition_score, auto_resume_threshold,
                active_trades, engine_ret>>

slVars == <<initial_stop_loss_pct, trailing_stop_pct, time_based_adjustment,
            volatility_based_adjustment, sl_positions, sl_order,
            breakeven_moves, sl_ret>>

positionVars == <<active_position, position_entry_time, position_entry_price,
                  stop_loss_price, take_profit_price>>

dcaVars == <<positions, last_investment_time, take_profit_pct>>

gridVars == <<lower_price, upper_price, grid_prices, grid_orders,
              last_rebalance_time, last_grid_change>>

strategyVars == <<strategy, positionVars, dcaVars, gridVars, live_orders, st_ret>>

vars == <<now, engineVars, slVars, strategyVars>>

----------------------------------------------------------------------------
(* Bounds of the model *)

\* number of symbols handed to one update_market_condition call
MaxSymbols == 2

\* number of times the clock advances
MaxTicks == 2

\* time.time() when the model starts, in seconds (later than one day, as
\* any real clock is)
StartTime == 90000

----------------------------------------------------------------------------
(* Fixed-point floats with IEEE special values *)

\* fixed-point scale of the model's arithmetic: two decimals
FP == 10 * 10

Num(x) == [k |-> "num", v |-> x]
NaN == [k |-> "nan", v |-> 0]
PosInf == [k |-> "inf", v |-> 1]
NegInf == [k |-> "inf", v |-> -1]

IsNaN(x) == x.k = "nan"
IsNum(x) == x.k = "num"

\* integer division truncating toward zero (b > 0)
TruncDiv(a, b) == IF a >= 0 THEN a \div b ELSE -((-a) \div b)

\* a > b on floats: every comparison with nan is False
FGt(a, b) ==
    /\ ~IsNaN(a)
    /\ ~IsNaN(b)
    /\ IF a.k = "inf" THEN a.v = 1 /\ ~(b.k = "inf" /\ b.v = 1)
       ELSE IF b.k = "inf" THEN b.v = -1
       ELSE a.v > b.v

\* Python's max(a, b): the first argument unless the second is greater
PyMax(a, b) == IF FGt(b, a) THEN b ELSE a
\* Python's min(a, b): the first argument unless the second is smaller
PyMin(a, b) == IF FGt(a, b) THEN b ELSE a

FAdd(a, b) ==
    IF IsNaN(a) \/ IsNaN(b) THEN NaN
    ELSE IF a.k = "inf" /\ b.k = "inf" THEN (IF a.v = b.v THEN a ELSE NaN)
    ELSE IF a.k = "inf" THEN a
    ELSE IF b.k = "inf" THEN b
    ELSE Num(a.v + b.v)

FNeg(a) == IF IsNaN(a) THEN NaN ELSE [k |-> a.k, v |-> -a.v]

FSub(a, b) == FAdd(a, FNeg(b))

\* a / n for a positive integer n
FDivN(a, n) == IF IsNum(a) THEN Num(TruncDiv(a.v, n)) ELSE a

\* (num / den) * mult for integers num, den >= 0, as numpy computes it:
\* division by zero yields nan (0/0) or a signed infinity
FRatio(num, den, mult) ==
    IF den = 0
    THEN (IF num = 0 THEN NaN ELSE IF num > 0 THEN PosInf ELSE NegInf)
    ELSE Num(TruncDiv(num * mult * FP, den))

\* floor of the square root, by bisection on the bit length
RECURSIVE ISqrtBits(_, _, _)
ISqrtBits(n, r, bit) ==
    IF bit = 0 THEN r
    ELSE IF (r + bit) * (r + bit) <= n
         THEN ISqrtBits(n, r + bit, bit \div 2)
         ELSE ISqrtBits(n, r, bit \div 2)

ISqrt(n) == ISqrtBits(n, 0, 16384)

RECURSIVE SumSeq(_)
SumSeq(s) == IF s = << >> THEN 0 ELSE Head(s) + SumSeq(Tail(s))

\* the last n elements of s (all of s when it is shorter)
LastN(s, n) == IF Len(s) <= n THEN s ELSE SubSeq(s, Len(s) - n + 1, Len(s))

----------------------------------------------------------------------------
(* Market data: candle series the MarketDataPort can return *)

\* a candle series with the given closes; every candle spans close +/- spread,
\* has volume v, and the last candle has volume vLast
SeriesOf(closes, v, vLast, spread) ==
    [i \in 1..Len(closes) |->
        [close  |-> closes[i],
         high   |-> closes[i] + spread,
         low    |-> closes[i] - spread,
         volume |-> IF i = Len(closes) THEN vLast ELSE v]]

\* n closes starting at c0 and moving by dc per candle
Ramp(n, c0, dc) == [i \in 1..n |-> c0 + (i - 1) * dc]

DfEmpty == << >>
DfOne == SeriesOf(<<100>>, 10, 10, 1)
DfShort == SeriesOf(Ramp(3, 100, 5), 10, 20, 1)
DfFlat == SeriesOf(Ramp(14, 100, 0), 10, 10, 1)
DfBull == SeriesOf(Ramp(14, 100, 3), 10, 30, 1)
DfMild == SeriesOf(Ramp(14, 100, 1), 10, 12, 1)
DfBear == SeriesOf(Ramp(14, 139, -3), 10, 10, 1)
DfChoppy == SeriesOf(<<100, 110, 100, 110, 100, 110, 100,
                       110, 100, 110, 100, 110, 100, 110>>, 10, 10, 4)
DfZeroFirst == SeriesOf(<<0, 100>>, 10, 10, 0)
DfZeroVolume == SeriesOf(Ramp(14, 100, 1), 0, 0, 1)

\* what get_ohlcv can hand to update_market_condition for one symbol, by
\* name ("empty" is the failed or empty fetch)
ScoreFrames == {"empty", "one", "short", "flat", "bull", "mild", "bear",
                "choppy", "zero_first", "zero_volume"}

Frame(name) ==
    CASE name = "empty" -> DfEmpty
      [] name = "one" -> DfOne
      [] name = "short" -> DfShort
      [] name = "flat" -> DfFlat
      [] name = "bull" -> DfBull
      [] name = "mild" -> DfMild
      [] name = "bear" -> DfBear
      [] name = "choppy" -> DfChoppy
      [] name = "zero_first" -> DfZeroFirst
      [] name = "zero_volume" -> DfZeroVolume

Closes(df) == [i \in 1..Len(df) |-> df[i].close]
Volumes(df) == [i \in 1..Len(df) |-> df[i].volume]

----------------------------------------------------------------------------
(* TradingEngine.update_market_condition: the four sub-scores of a symbol *)

\* df['close'].pct_change().dropna(), in percent: the finite or infinite
\* returns that survive dropna (0/0 is nan and is dropped)
RECURSIVE PctReturns(_, _)
PctReturns(c, i) ==
    IF i > Len(c) THEN << >>
    ELSE LET r == FRatio(c[i] - c[i - 1], c[i - 1], 100)
         IN  (IF IsNaN(r) THEN << >> ELSE <<r>>) \o PctReturns(c, i + 1)

\* Series.std() * 100 of the returns: the sample standard deviation
\* (ddof = 1); nan for fewer than two values or when a value is infinite
Volatility(df) ==
    LET rs == PctReturns(Closes(df), 2)
        m  == Len(rs)
    IN  IF m < 2 \/ \E i \in 1..m : ~IsNum(rs[i]) THEN NaN
        ELSE LET vs  == [i \in 1..m |-> rs[i].v]
                 s1  == SumSeq(vs)
                 s2  == SumSeq([i \in 1..m |-> vs[i] * vs[i]])
                 \* variance = (m*s2 - s1^2) / (m*(m-1))
                 var == (m * s2 - s1 * s1) \div (m * (m - 1))
             IN  Num(ISqrt(var))

\* df[col].rolling(window=w).mean().iloc[-1] > ... of the trend test:
\* both means exist only with at least SmaLong rows
SmaShort == 6
SmaLong == 12

IsBullish(df) ==
    LET c == Closes(df) IN
    /\ Len(c) >= SmaLong
    /\ SumSeq(LastN(c, SmaShort)) * SmaLong > SumSeq(LastN(c, SmaLong)) * SmaShort

PriceChangePct(df) ==
    LET c == Closes(df) IN FRatio(c[Len(c)] - c[1], c[1], 100)

VolumeChangePct(df) ==
    LET v == Volumes(df)
        n == Len(v)
    IN  \* (current - avg) / avg * 100 with avg = sum / n
        FRatio(v[n] * n - SumSeq(v), SumSeq(v), 100)

\* a missing frame counts as half of each sub-score's range
MissingScoresNeutral ==
    [momentum |-> Num(0), volume |-> Num(10 * FP),
     volatility |-> Num(7 * FP), trend |-> Num(7 * FP)]

\* lines 257-258: an empty frame is skipped, nothing is added to the four
\* sub-scores
MissingScores ==
    [momentum |-> Num(0), volume |-> Num(0),
     volatility |-> Num(0), trend |-> Num(0)]

\* the contribution of one symbol to the four accumulators (lines 254-292);
\* an empty frame is skipped (continue) and contributes 0 to each
SymbolScores(df) ==
    IF df = DfEmpty THEN MissingScores
    ELSE [momentum   |-> PyMin(PyMax(PriceChangePct(df), Num(-25 * FP)), Num(25 * FP)),
          volume     |-> PyMin(PyMax(FDivN(VolumeChangePct(df), 5), Num(0)), Num(20 * FP)),
          volatility |-> PyMax(FSub(Num(15 * FP), Volatility(df)), Num(0)),
          trend      |-> Num(IF IsBullish(df) THEN 15 * FP ELSE 0)]

\* the sub-scores of every frame of the catalogue, computed once
SymbolScoreTable == { <<f, SymbolScores(Frame(f))>> : f \in ScoreFrames }

ScoresOf(f) == (CHOOSE p \in SymbolScoreTable : p[1] = f)[2]

RECURSIVE FSum(_)
FSum(s) == IF s = << >> THEN Num(0) ELSE FAdd(Head(s), FSum(Tail(s)))

\* one of the four sub-scores after the loop over the symbols (lines
\* 254-291)
SubScoreSum(dfs, name) == FSum([i \in 1..Len(dfs) |-> ScoresOf(dfs[i])[name]])

\* the four sub-scores after the loop
SubScoreSums(dfs) ==
    [momentum   |-> SubScoreSum(dfs, "momentum"),
     volume     |-> SubScoreSum(dfs, "volume"),
     volatility |-> SubScoreSum(dfs, "volatility"),
     trend      |-> SubScoreSum(dfs, "trend")]

\* the value of final_score before int(): the averaged sub-scores with the
\* momentum normalised to 0..40 (lines 294-310)
RawScore(dfs) ==
    LET n  == Len(dfs)
        pm == FDivN(SubScoreSum(dfs, "momentum"), n)
        vo == FDivN(SubScoreSum(dfs, "volume"), n)
        vt == FDivN(SubScoreSum(dfs, "volatility"), n)
        tr == FDivN(SubScoreSum(dfs, "trend"), n)
        nm == IF IsNum(pm) THEN Num(TruncDiv((pm.v + 25 * FP) * 40, 50)) ELSE pm
    IN  FAdd(FAdd(FAdd(nm, vo), vt), tr)

IntMax(a, b) == IF b > a THEN b ELSE a
IntMin(a, b) == IF b < a THEN b ELSE a

\* min(max(int(final_score), 0), 100) (line 311)
ClampScore(s) == IntMin(IntMax(s, 0), 100)

\* the outcome of the try block: int() raises on nan (ValueError) and on an
\* infinity (OverflowError); both are caught at line 322
FinalScore(dfs) ==
    LET raw == RawScore(dfs) IN
    IF IsNum(raw)
    THEN [raised |-> FALSE, score |-> ClampScore(TruncDiv(raw.v, FP))]
    ELSE [raised |-> TRUE, score |-> 0]

----------------------------------------------------------------------------
(* TradingEngine: construction *)

\* (MIN_MARKET_CONDITION_SCORE, AUTO_RESUME_THRESHOLD) as the environment
\* can set them: the defaults, a single boundary, and an inverted pair
DefaultMinScore == 60
DefaultResumeThreshold == 75

ThresholdConfigs ==
    { <<DefaultMinScore, DefaultResumeThreshold>>, <<35, 35>>, <<70, 50>> }

NoCall == [op |-> "init", raised |-> FALSE, score |-> 0, was_active |-> FALSE]

EngineInit ==
    /\ trading_mode \in {"paper", "live"}
    /\ market_condition_score = 0
    /\ is_trading_active = FALSE
    /\ \E c \in ThresholdConfigs :
          /\ min_market_condition_score = c[1]
          /\ auto_resume_threshold = c[2]
    /\ active_trades = << >>
    /\ now = StartTime
    /\ engine_ret = NoCall

----------------------------------------------------------------------------
(* TradingEngine: market condition and trading status *)

\* a single boundary instead of the band: active exactly when the score
\* reaches the minimum
UpdateTradingStatusNoBand(active, score) ==
    score >= min_market_condition_score

\* the two thresholds exchanged: resume at the minimum, suspend below the
\* resume threshold
UpdateTradingStatusSwapped(active, score) ==
    IF ~active /\ score >= min_market_condition_score THEN TRUE
    ELSE IF active /\ score < auto_resume_threshold THEN FALSE
    ELSE active

\* trading resumes at the resume threshold and is never suspended
UpdateTradingStatusNoSuspend(active, score) ==
    active \/ score >= auto_resume_threshold

\* _update_trading_status: the value of is_trading_active after the call,
\* given its value before and the score just stored
UpdateTradingStatus(active, score) ==
    IF ~active /\ score >= auto_resume_threshold THEN TRUE
    ELSE IF active /\ score < min_market_condition_score THEN FALSE
    ELSE active

\* an error path that resets the score to a sentinel
StoredScoreSentinel(fs, old) == IF fs.raised THEN -1 ELSE fs.score

\* self.market_condition_score after the call: written once with the final
\* score (line 314), untouched when the computation raised (line 324)
StoredScore(fs, old) == IF fs.raised THEN old ELSE fs.score

\* the status is evaluated against the score of before the call
ScoreSeenByStatusStale(new_score, old_score) == old_score

\* line 317 follows line 314: _update_trading_status reads the score just
\* written
ScoreSeenByStatus(new_score, old_score) == new_score

\* the most status changes the observation counts in a run of equal scores
MaxRun == 2

\* update_market_condition(symbols), the port answering dfs (one frame per
\* symbol, in order).  The observation records the frames, the sub-scores
\* after the loop, the returned value, the number of assignments to
\* market_condition_score, and, for the run of consecutive succeeding calls
\* computing the same score that this call ends, the number of changes of
\* is_trading_active in it.
UpdateMarketCondition(dfs) ==
    LET fs == FinalScore(dfs)
        same == /\ engine_ret.op = "update_market_condition"
                /\ ~engine_ret.raised
                /\ ~fs.raised
                /\ engine_ret.score = fs.score
    IN
    /\ market_condition_score' = StoredScore(fs, market_condition_score)
    /\ is_trading_active' =
          IF fs.raised THEN is_trading_active
          ELSE UpdateTradingStatus(is_trading_active,
                  ScoreSeenByStatus(market_condition_score',
                                    market_condition_score))
    /\ engine_ret' = [op |-> "update_market_condition", raised |-> fs.raised,
                      score |-> fs.score, was_active |-> is_trading_active,
                      returned |-> market_condition_score',
                      writes |-> IF fs.raised THEN 0 ELSE 1,
                      frames |-> dfs,
                      sums |-> SubScoreSums(dfs),
                      run_changes |->
                          IntMin(MaxRun,
                                 (IF same THEN engine_ret.run_changes ELSE 0)
                                 + IF is_trading_active' # is_trading_active
                                   THEN 1 ELSE 0)]
    /\ UNCHANGED <<trading_mode, min_market_condition_score,
                   auto_resume_threshold, active_trades, now>>

\* set_trading_status(active)
SetTradingStatus(active) ==
    /\ is_trading_active' = active
    /\ engine_ret' = [op |-> "set_trading_status", raised |-> FALSE,
                      score |-> market_condition_score,
                      was_active |-> is_trading_active]
    /\ UNCHANGED <<trading_mode, market_condition_score,
                   min_market_condition_score, auto_resume_threshold,
                   active_trades, now>>

\* the frames of one call: one to MaxSymbols symbols
FrameLists == UNION { [1..n -> ScoreFrames] : n \in 1..MaxSymbols }

\* every outcome update_market_condition can compute from the catalogue, and
\* one call for each of them (calls with equal outcomes have equal effects)
ScoreOutcomes == { FinalScore(dfs) : dfs \in FrameLists }

ScoreCalls ==
    { CHOOSE dfs \in FrameLists : FinalScore(dfs) = o : o \in ScoreOutcomes }

\* the calls in which get_ohlcv fails or answers an empty frame for some or
\* all of the symbols, the other symbols having rising, flat or unusable
\* candles
MissingFrames == {"empty", "bull", "flat", "zero_first"}

MissingCalls ==
    { dfs \in UNION { [1..n -> MissingFrames] : n \in 1..MaxSymbols } :
         \E i \in 1..Len(dfs) : dfs[i] = "empty" }

----------------------------------------------------------------------------
(* Tickers *)

\* Python's None where a price is expected
PyNone == 0 - 1

\* what get_ticker returns: {} (also on failure), a ticker whose 'last' is
\* None, or a ticker with a price
TickerEmpty == [ok |-> FALSE, last |-> PyNone]
TickerNoLast == [ok |-> TRUE, last |-> PyNone]
TickerAt(p) == [ok |-> TRUE, last |-> p]

----------------------------------------------------------------------------
(* The clock *)

\* one advance of the clock: twelve hours, in seconds
TickSeconds == 12 * 3600

AdvanceClock ==
    /\ now + TickSeconds <= StartTime + MaxTicks * TickSeconds
    /\ now' = now + TickSeconds

----------------------------------------------------------------------------
(* DynamicStopLossModule: construction *)

AtrPeriod == 14
AtrMultiplier == 2

\* constructor arguments: (initial_stop_loss_pct, trailing_stop_pct,
\* time_based_adjustment, volatility_based_adjustment)
StopLossConfigs ==
    { <<2, 5, TRUE, FALSE>>, <<2, 0, TRUE, TRUE>>, <<5, 5, FALSE, TRUE>> }

\* the observation of a call: the operation, its position id, the ticker
\* check_positions obtained and the list it returned, and the frame
\* get_ohlcv answered to register_position
NoSLCall ==
    [op |-> "init", id |-> "", ticker |-> TickerEmpty, returned |-> << >>,
     frame |-> ""]

StopLossInit(configs) ==
    /\ \E c \in configs :
          /\ initial_stop_loss_pct = c[1]
          /\ trailing_stop_pct = c[2]
          /\ time_based_adjustment = c[3]
          /\ volatility_based_adjustment = c[4]
    /\ sl_positions = << >>
    /\ sl_order = << >>
    /\ breakeven_moves = << >>
    /\ sl_ret = NoSLCall

----------------------------------------------------------------------------
(* DynamicStopLossModule: initial stop *)

\* the True Range column: row 1 is high - low (the shifted close is nan and
\* max skips it), later rows the largest of the three ranges
Abs(x) == IF x < 0 THEN -x ELSE x

TrueRange(df, i) ==
    IF i = 1 THEN df[1].high - df[1].low
    ELSE IntMax(IntMax(df[i].high - df[i].low,
                       Abs(df[i].high - df[i - 1].close)),
                Abs(df[i].low - df[i - 1].close))

\* _calculate_atr: 0 for an empty frame, nan when the rolling window is not
\* filled, else the mean of the last AtrPeriod true ranges
CalculateAtr(df) ==
    IF df = DfEmpty THEN Num(0)
    ELSE IF Len(df) < AtrPeriod THEN NaN
    ELSE LET tr == [i \in 1..Len(df) |-> TrueRange(df, i)]
         IN  Num(TruncDiv(SumSeq(LastN(tr, AtrPeriod)) * FP, AtrPeriod))

\* frames get_ohlcv can hand to _calculate_atr
AtrFrames == {"empty", "one", "flat", "choppy"}

AtrTable == { <<f, CalculateAtr(Frame(f))>> : f \in AtrFrames }

AtrOf(f) == (CHOOSE p \in AtrTable : p[1] = f)[2]

\* entry_price * (1 -/+ initial_stop_loss_pct / 100)
BaseStopLoss(entry_price, side) ==
    IF side = "long"
    THEN TruncDiv(entry_price * (100 - initial_stop_loss_pct), 100)
    ELSE TruncDiv(entry_price * (100 + initial_stop_loss_pct), 100)

\* the ATR is used whether or not the volatility adjustment is enabled
AtrUsableAlways(atr) == FGt(atr, Num(0))

\* lines 90-92: the volatility adjustment is enabled and atr > 0
AtrUsable(atr) == volatility_based_adjustment /\ FGt(atr, Num(0))

\* the ATR-based candidate always wins
ChooseStopAtr(base_stop_loss, atr_stop_loss, side) == atr_stop_loss

\* the candidate nearer to the entry price wins
ChooseStopTighter(base_stop_loss, atr_stop_loss, side) ==
    IF side = "long" THEN IntMax(base_stop_loss, atr_stop_loss)
    ELSE IntMin(base_stop_loss, atr_stop_loss)

\* lines 96-100: min of the two candidates for a long, max for a short
ChooseStop(base_stop_loss, atr_stop_loss, side) ==
    IF side = "long" THEN IntMin(base_stop_loss, atr_stop_loss)
    ELSE IntMax(base_stop_loss, atr_stop_loss)

\* entry_price -/+ atr * self.atr_multiplier
AtrStopLoss(entry_price, side, atr) ==
    IF side = "long" THEN entry_price - atr.v * AtrMultiplier
    ELSE entry_price + atr.v * AtrMultiplier

\* calculate_initial_stop_loss, the port answering frame f to _calculate_atr
CalculateInitialStopLoss(entry_price, side, f) ==
    LET base == BaseStopLoss(entry_price, side)
        atr  == AtrOf(f)
    IN  IF AtrUsable(atr)
        THEN ChooseStop(base, AtrStopLoss(entry_price, side, atr), side)
        ELSE base

----------------------------------------------------------------------------
(* DynamicStopLossModule: operations *)

PositionIds == {"p1", "p2"}

\* prices the ticker and the callers report, in fixed point
Price(x) == x * FP
StopLossPrices ==
    {Price(90), Price(98), Price(100), Price(101), Price(102), Price(110)}
EntryPrices == {Price(100)}


\* dict insertion order: a new key goes last, an existing key keeps its place
InsertKey(order, id) ==
    IF \E i \in 1..Len(order) : order[i] = id THEN order ELSE Append(order, id)

RemoveKey(order, id) == SelectSeq(order, LAMBDA k : k # id)

\* a function without the key id
DropKey(f, id) == [k \in DOMAIN f \ {id} |-> f[k]]

\* a function with f[id] set to v
PutKey(f, id, v) == [k \in DOMAIN f \cup {id} |-> IF k = id THEN v ELSE f[k]]

\* register_position(position_id, entry_price, amount, side), the port
\* answering frame f to the ATR computation
RegisterPosition(id, entry_price, amount, side, f) ==
    /\ sl_positions' = PutKey(sl_positions, id,
          [entry_price |-> entry_price,
           current_price |-> entry_price,
           amount |-> amount,
           side |-> side,
           entry_time |-> now,
           stop_loss_price |-> CalculateInitialStopLoss(entry_price, side, f),
           highest_price |-> IF side = "long" THEN Num(entry_price) ELSE PosInf,
           lowest_price |-> IF side = "short" THEN entry_price ELSE 0,
           stop_loss_updated |-> FALSE,
           stop_loss_triggered |-> FALSE])
    /\ sl_order' = InsertKey(sl_order, id)
    /\ breakeven_moves' = PutKey(breakeven_moves, id, 0)
    /\ sl_ret' = [NoSLCall EXCEPT !.op = "register_position", !.id = id,
                                  !.frame = f]
    /\ UNCHANGED <<initial_stop_loss_pct, trailing_stop_pct,
                   time_based_adjustment, volatility_based_adjustment>>

\* lines 155-159: the running highest (long) or lowest (short) price
TrackExtremes(pos, price) ==
    IF pos.side = "long"
    THEN [pos EXCEPT !.current_price = price,
                     !.highest_price = PyMax(pos.highest_price, Num(price))]
    ELSE [pos EXCEPT !.current_price = price,
                     !.lowest_price = IntMin(pos.lowest_price, price)]

\* the trailing level replaces the stop whether or not it is tighter
TrailingAdjustAlways(pos) ==
    IF trailing_stop_pct # 0 /\ pos.stop_loss_updated
    THEN IF pos.side = "long"
         THEN [pos EXCEPT !.stop_loss_price =
                  TruncDiv(pos.highest_price.v * (100 - trailing_stop_pct), 100)]
         ELSE [pos EXCEPT !.stop_loss_price =
                  TruncDiv(pos.lowest_price * (100 + trailing_stop_pct), 100)]
    ELSE pos

\* the trailing level is applied from the first update on
TrailingAdjustEarly(pos) ==
    IF trailing_stop_pct # 0
    THEN IF pos.side = "long"
         THEN [pos EXCEPT !.stop_loss_price =
                  IntMax(@, TruncDiv(pos.highest_price.v * (100 - trailing_stop_pct),
                                     100))]
         ELSE [pos EXCEPT !.stop_loss_price =
                  IntMin(@, TruncDiv(pos.lowest_price * (100 + trailing_stop_pct),
                                     100))]
    ELSE pos

\* lines 161-172: the trailing stop, only once the stop has been adjusted,
\* and only when it tightens the stop
TrailingAdjust(pos) ==
    IF trailing_stop_pct # 0 /\ pos.stop_loss_updated
    THEN IF pos.side = "long"
         THEN LET trailing_stop ==
                      TruncDiv(pos.highest_price.v * (100 - trailing_stop_pct), 100)
              IN  IF trailing_stop > pos.stop_loss_price
                  THEN [pos EXCEPT !.stop_loss_price = trailing_stop]
                  ELSE pos
         ELSE LET trailing_stop ==
                      TruncDiv(pos.lowest_price * (100 + trailing_stop_pct), 100)
              IN  IF trailing_stop < pos.stop_loss_price
                  THEN [pos EXCEPT !.stop_loss_price = trailing_stop]
                  ELSE pos
    ELSE pos

BreakevenHours == 24
SecondsPerHour == 3600

\* the favourable excursion of lines 181 and 185: beyond 1% of the entry
FavorableExcursion(pos) ==
    IF pos.side = "long"
    THEN FGt(pos.highest_price, Num(TruncDiv(pos.entry_price * 101, 100)))
    ELSE pos.lowest_price < TruncDiv(pos.entry_price * 99, 100)

\* the migration is repeated on every late call
BreakevenDueRepeated(pos, t) ==
    /\ time_based_adjustment
    /\ t - pos.entry_time >= BreakevenHours * SecondsPerHour
    /\ FavorableExcursion(pos)

\* lines 175-188: whether this call moves the stop to breakeven
BreakevenDue(pos, t) ==
    /\ time_based_adjustment
    /\ ~pos.stop_loss_updated
    /\ t - pos.entry_time >= BreakevenHours * SecondsPerHour
    /\ FavorableExcursion(pos)

BreakevenAdjust(pos, t) ==
    IF BreakevenDue(pos, t)
    THEN [pos EXCEPT !.stop_loss_price = pos.entry_price,
                     !.stop_loss_updated = TRUE]
    ELSE pos

\* strict comparisons: a price equal to the stop does not trigger
StopHitStrict(pos, price) ==
    \/ pos.side = "long" /\ price < pos.stop_loss_price
    \/ pos.side = "short" /\ price > pos.stop_loss_price

\* lines 190-195: is_triggered
StopHit(pos, price) ==
    \/ pos.side = "long" /\ price <= pos.stop_loss_price
    \/ pos.side = "short" /\ price >= pos.stop_loss_price

\* lines 197-202: the flag is set when triggered and never cleared
MarkTriggered(pos, price) ==
    IF StopHit(pos, price) THEN [pos EXCEPT !.stop_loss_triggered = TRUE] ELSE pos

\* the position after update_position(position_id, current_price) at time t
UpdatedPosition(pos, price, t) ==
    MarkTriggered(BreakevenAdjust(TrailingAdjust(TrackExtremes(pos, price)), t),
                  price)

\* the history of breakeven migrations after updating position id
CountBreakeven(id, price, t) ==
    IF BreakevenDue(TrailingAdjust(TrackExtremes(sl_positions[id], price)), t)
    THEN [breakeven_moves EXCEPT ![id] = @ + 1]
    ELSE breakeven_moves

\* update_position(position_id, current_price)
UpdatePosition(id, price) ==
    /\ IF id \in DOMAIN sl_positions
       THEN /\ sl_positions' = [sl_positions EXCEPT
                                   ![id] = UpdatedPosition(@, price, now)]
            /\ breakeven_moves' = CountBreakeven(id, price, now)
       ELSE UNCHANGED <<sl_positions, breakeven_moves>>
    /\ sl_ret' = [NoSLCall EXCEPT !.op = "update_position", !.id = id]
    /\ UNCHANGED <<initial_stop_loss_pct, trailing_stop_pct,
                   time_based_adjustment, volatility_based_adjustment, sl_order>>

\* the flagged positions are collected but stay tracked
RECURSIVE CheckLoopKeep(_, _, _, _)
CheckLoopKeep(ids, price, poss, out) ==
    IF ids = << >> THEN [positions |-> poss, returned |-> out]
    ELSE LET id  == Head(ids)
             upd == UpdatedPosition(poss[id], price, now)
         IN  CheckLoopKeep(Tail(ids), price, [poss EXCEPT ![id] = upd],
                           IF upd.stop_loss_triggered
                           THEN Append(out, [id |-> id, position |-> upd])
                           ELSE out)

\* the loop of check_positions over list(self.positions.items()): every
\* position is updated, the flagged ones are collected and deleted
RECURSIVE CheckLoop(_, _, _, _)
CheckLoop(ids, price, poss, out) ==
    IF ids = << >> THEN [positions |-> poss, returned |-> out]
    ELSE LET id  == Head(ids)
             upd == UpdatedPosition(poss[id], price, now)
         IN  IF upd.stop_loss_triggered
             THEN CheckLoop(Tail(ids), price, DropKey(poss, id),
                            Append(out, [id |-> id, position |-> upd]))
             ELSE CheckLoop(Tail(ids), price, [poss EXCEPT ![id] = upd], out)

RECURSIVE CountLoop(_, _, _)
CountLoop(ids, price, moves) ==
    IF ids = << >> THEN moves
    ELSE LET id  == Head(ids)
             due == BreakevenDue(
                        TrailingAdjust(TrackExtremes(sl_positions[id], price)), now)
         IN  CountLoop(Tail(ids), price,
                       IF due THEN [moves EXCEPT ![id] = @ + 1] ELSE moves)

\* check_positions(), get_ticker answering ticker
CheckPositions(ticker) ==
    /\ IF ~ticker.ok
       THEN \* line 216-218: early return
            /\ UNCHANGED <<sl_positions, sl_order, breakeven_moves>>
            /\ sl_ret' = [NoSLCall EXCEPT !.op = "check_positions"]
       ELSE IF ticker.last = PyNone
       THEN \* update_position stores current_price, then max/min of a number
            \* and None raises TypeError, caught at line 230
            /\ sl_positions' =
                  IF sl_order = << >> THEN sl_positions
                  ELSE [sl_positions EXCEPT ![Head(sl_order)].current_price = PyNone]
            /\ UNCHANGED <<sl_order, breakeven_moves>>
            /\ sl_ret' = [NoSLCall EXCEPT !.op = "check_positions",
                                          !.ticker = ticker]
       ELSE LET res == CheckLoop(sl_order, ticker.last, sl_positions, << >>) IN
            /\ sl_positions' = res.positions
            /\ sl_order' = SelectSeq(sl_order, LAMBDA k : k \in DOMAIN res.positions)
            /\ breakeven_moves' = CountLoop(sl_order, ticker.last, breakeven_moves)
            /\ sl_ret' = [NoSLCall EXCEPT !.op = "check_positions",
                                          !.ticker = ticker,
                                          !.returned = res.returned]
    /\ UNCHANGED <<initial_stop_loss_pct, trailing_stop_pct,
                   time_based_adjustment, volatility_based_adjustment>>

\* remove_position(position_id)
RemovePosition(id) ==
    /\ IF id \in DOMAIN sl_positions
       THEN /\ sl_positions' = DropKey(sl_positions, id)
            /\ sl_order' = RemoveKey(sl_order, id)
       ELSE UNCHANGED <<sl_positions, sl_order>>
    /\ UNCHANGED breakeven_moves
    /\ sl_ret' = [NoSLCall EXCEPT !.op = "remove_position", !.id = id]
    /\ UNCHANGED <<initial_stop_loss_pct, trailing_stop_pct,
                   time_based_adjustment, volatility_based_adjustment>>

----------------------------------------------------------------------------
(* TradingEngine: balance and order execution *)

MaxTradeAmount == 100
PaperFreeBalance == 5000

\* asset amounts are integers in units of 1 / AmountScale
AmountScale == 100 * 100
Amount(x) == x * AmountScale

\* bound on the orders the exchange has accepted in live mode when a call
\* starts
MaxLiveOrders == 1

\* prices of the traded symbol in the candles and tickers the strategies read
MarketPrices == {Price(100), Price(110)}

\* prices get_ticker reports to execute_trade for a market order
ExecPrices == {Price(100)}

\* number of times the clock advances under a strategy other than DCA
StrategyTicks == 1

\* answers of exchange.fetch_balance for the free quote balance; PyNone
\* when it raises (get_balance then returns {})
BalanceAnswers ==
    IF trading_mode = "live" THEN {PyNone, PaperFreeBalance} ELSE {PyNone}

\* balance.get('free', {}).get(quote_currency, 0) of get_balance()
GetBalance(bal) ==
    IF trading_mode = "live"
    THEN IF bal = PyNone THEN 0 ELSE bal
    ELSE PaperFreeBalance

\* answers of the exchange during execute_trade: in live mode create_order
\* succeeds or raises, in paper mode get_ticker answers
ExecAnswers(prices) ==
    IF trading_mode = "live"
    THEN {[ticker |-> TickerEmpty, ok |-> b] : b \in BOOLEAN}
    ELSE {[ticker |-> t, ok |-> TRUE] :
             t \in {TickerEmpty, TickerNoLast} \cup {TickerAt(p) : p \in prices}}

\* guard of the calls that can submit orders
LiveRoom == trading_mode = "live" => live_orders < MaxLiveOrders

\* the symbol the strategy trades
Symbol == "BTC/USDT"

\* symbols execute_trade is called with; the last one has no '/'
TradeSymbols == {"BTC/USDT", "ETH/USDT", "BTCUSDT"}

\* symbol.replace('/', '')
StripSlash(symbol) ==
    CASE symbol = "BTC/USDT" -> "BTCUSDT"
      [] symbol = "ETH/USDT" -> "ETHUSDT"
      [] OTHER               -> symbol

\* whether symbol.split('/')[1] exists
HasQuote(symbol) == symbol # StripSlash(symbol)

\* execute_trade passing the amount on as it is
ClampAmountNone(amount) == amount

\* amount = min(amount, self.max_trade_amount)
ClampAmount(amount) == IntMin(amount, Amount(MaxTradeAmount))

\* order_id = f"paper_{int(time.time())}_{side}_{symbol.replace('/', '')}"
PaperOrderId(symbol, side) == <<"paper", now, side, StripSlash(symbol)>>

\* a failed call that still leaves an entry in the registry
TrackFailedKeep(trades, symbol, side, amt) ==
    PutKey(trades, <<"failed", side>>,
           [symbol |-> symbol, side |-> side, amount |-> amt, price |-> PyNone])

\* the registry after a call that returns {'error': ...}
TrackFailed(trades, symbol, side, amt) == trades

\* execute_trade(symbol, side, amount, price) on the registry trades, the
\* exchange having accepted n orders; price PyNone models None. The result
\* holds the new registry, whether the order has an id, and the tickers read.
ExecuteTrade(trades, n, symbol, side, amount, price, ans) ==
    LET amt == ClampAmount(amount)
        fail(r) == [ok |-> FALSE, id |-> << >>,
                    trades |-> TrackFailed(trades, symbol, side, amt),
                    live |-> n, reads |-> r]
        done(id, p, m, r) ==
            [ok |-> TRUE, id |-> id,
             trades |-> PutKey(trades, id,
                               [symbol |-> symbol, side |-> side,
                                amount |-> amt, price |-> p]),
             live |-> m, reads |-> r]
    IN  IF trading_mode = "live"
        THEN \* _execute_live_trade: create_order raises or the order is tracked
             IF ans.ok THEN done(<<"live", n + 1>>, price, n + 1, 0)
             ELSE fail(0)
        ELSE \* _execute_paper_trade: the order is built, then tracked
             IF price = PyNone \/ price = 0
             THEN IF ~ans.ticker.ok \/ ans.ticker.last = PyNone
                  THEN fail(1)
                  ELSE IF ~HasQuote(symbol) THEN fail(1)
                  ELSE done(PaperOrderId(symbol, side), ans.ticker.last, n, 1)
             ELSE IF ~HasQuote(symbol) THEN fail(0)
             ELSE done(PaperOrderId(symbol, side), price, n, 0)

\* the sum of the amounts of the buy trades of the strategy's symbol
RECURSIVE SumBuyAmounts(_, _)
SumBuyAmounts(trades, ids) ==
    IF ids = {} THEN 0
    ELSE LET id == CHOOSE k \in ids : TRUE
         IN  (IF trades[id].symbol = Symbol /\ trades[id].side = "buy"
              THEN trades[id].amount ELSE 0)
             + SumBuyAmounts(trades, ids \ {id})

\* bound on the size of the registry when execute_trade is called directly
MaxTrades == 2

\* amounts and limit prices of the direct calls; PyNone is a market order
TradeAmounts == {Amount(1), Amount(150)}
TradePrices == {PyNone, Price(110)}

\* execute_trade(symbol, side, amount, price), called on the Engine
ExecuteTradeCall(symbol, side, amount, price, ans) ==
    /\ Cardinality(DOMAIN active_trades) < MaxTrades
    /\ LET order == ExecuteTrade(active_trades, live_orders, symbol, side,
                                 amount, price, ans)
       IN  /\ active_trades' = order.trades
           /\ live_orders' = order.live
           /\ engine_ret' = [op |-> "execute_trade", raised |-> FALSE,
                             ok |-> order.ok, id |-> order.id,
                             symbol |-> symbol, side |-> side,
                             amount |-> amount]
    /\ UNCHANGED <<now, trading_mode, market_condition_score,
                   is_trading_active, min_market_condition_score,
                   auto_resume_threshold>>

----------------------------------------------------------------------------
(* Strategies: what a call reports *)

\* the arbitrage strategy's signal 'none'; reads counts the tickers fetched
NoArbitrageSignal ==
    [signal |-> "none", buy_exchange |-> "", sell_exchange |-> "",
     buy_price |-> PyNone, sell_price |-> PyNone, spread_pct |-> PyNone,
     reads |-> 0]

NoSignal ==
    [signal |-> "none", price |-> PyNone, raised |-> FALSE,
     reason |-> "No data available"]

\* the observation of a strategy call: its result, whether it raised, the
\* market-data reads, the orders it submitted and how many were accepted,
\* the side and amount of the order of a DCA call, the ticker get_ticker
\* answers at the time of a DCA or grid call (ticker_b: the second answer
\* during a grid rebalance, or the second exchange's), the signal of the
\* arbitrage analysis, and the row count of the frame get_ohlcv answered
NoStrategyCall ==
    [op |-> "init", action |-> "none", reason |-> "", raised |-> FALSE,
     reads |-> 0, orders |-> 0, order_ok |-> FALSE, signal |-> NoSignal,
     placed |-> 0, side |-> "none", amount |-> 0, ticker |-> TickerEmpty,
     ticker_b |-> TickerEmpty, details |-> NoArbitrageSignal, rows |-> ""]

Inactive == "Trading is not active"

\* what a strategy call leaves alone in the Engine and the stop-loss module
EngineQuiet ==
    UNCHANGED <<now, trading_mode, market_condition_score, is_trading_active,
                min_market_condition_score, auto_resume_threshold, engine_ret,
                slVars, strategy>>

----------------------------------------------------------------------------
(* Momentum, scalping and swing strategies *)

PositionKinds == {"momentum", "scalping", "swing"}

\* share of the free balance of one position, in 1/1000
SizePermille(kind) ==
    CASE kind = "momentum" -> 100
      [] kind = "scalping" -> 10
      [] kind = "swing"    -> 50

\* stop_loss_pct and profit_target_pct, in 1/1000
StopLossPermille(kind) == IF kind = "momentum" THEN 20 ELSE 25

ProfitTargetPermille(kind) ==
    CASE kind = "momentum" -> 30
      [] kind = "scalping" -> 5
      [] kind = "swing"    -> 50

\* max_trade_duration, in minutes
MaxTradeDuration == 30

\* confirmations a buy needs
MinConfirmations(kind) == IF kind = "momentum" THEN 2 ELSE 1

\* what the indicators of get_ohlcv's frame amount to: the number of rows
\* (none, one, at least two), the latest close, the number of buy reasons
\* and whether a sell reason holds
Snapshots ==
    [rows : {"empty", "one"}, close : {Price(100)},
     confirmations : {0}, sell_signal : {FALSE}]
    \cup [rows : {"many"}, close : MarketPrices,
          confirmations : 0..2, sell_signal : BOOLEAN]

\* the scalping position is never closed on its age
ExitDueNoTimeLimit(kind, cp) ==
    IF kind = "scalping"
    THEN cp * 1000 >= position_entry_price * (1000 + ProfitTargetPermille(kind))
    ELSE \/ cp <= stop_loss_price
         \/ cp >= take_profit_price

\* the exits on price and on time of an open position
ExitDue(kind, cp) ==
    IF kind = "scalping"
    THEN \/ cp * 1000 >= position_entry_price * (1000 + ProfitTargetPermille(kind))
         \/ /\ position_entry_time # 0
            /\ now - position_entry_time >= MaxTradeDuration * 60
    ELSE \/ cp <= stop_loss_price
         \/ cp >= take_profit_price

\* the technical reversal is looked at before the price levels
ExitReasonReversalFirst(kind, cp, sell_signal) ==
    IF sell_signal THEN "technical"
    ELSE IF kind = "scalping"
    THEN IF cp * 1000 >= position_entry_price * (1000 + ProfitTargetPermille(kind))
         THEN "profit_target" ELSE "time_limit"
    ELSE IF cp <= stop_loss_price THEN "stop_loss" ELSE "take_profit"

\* the reason of the sell signal of an open position, the exits taken in
\* the order of the source: profit target, time limit, indicators for the
\* scalping strategy; stop loss, take profit, indicators for the others
ExitReason(kind, cp, sell_signal) ==
    IF kind = "scalping"
    THEN IF cp * 1000 >= position_entry_price * (1000 + ProfitTargetPermille(kind))
         THEN "profit_target"
         ELSE IF /\ position_entry_time # 0
                 /\ now - position_entry_time >= MaxTradeDuration * 60
         THEN "time_limit"
         ELSE "technical"
    ELSE IF cp <= stop_loss_price THEN "stop_loss"
    ELSE IF cp >= take_profit_price THEN "take_profit"
    ELSE "technical"

\* analyze_market(): the signal, or the IndexError of df.iloc[-2] on a frame
\* of one row
AnalyzeMarket(kind, snap) ==
    IF snap.rows = "empty" THEN NoSignal
    ELSE IF snap.rows = "one" THEN [NoSignal EXCEPT !.raised = TRUE]
    ELSE IF active_position # "None"
    THEN IF ExitDue(kind, snap.close) \/ snap.sell_signal
         THEN [signal |-> "sell", price |-> snap.close, raised |-> FALSE,
               reason |-> ExitReason(kind, snap.close, snap.sell_signal)]
         ELSE [signal |-> "none", price |-> snap.close, raised |-> FALSE,
               reason |-> "No trading opportunity"]
    ELSE IF snap.confirmations >= MinConfirmations(kind) /\ is_trading_active
         THEN [signal |-> "buy", price |-> snap.close, raised |-> FALSE,
               reason |-> "entry"]
         ELSE [signal |-> "none", price |-> snap.close, raised |-> FALSE,
               reason |-> "No trading opportunity"]

PositionState ==
    [active_position |-> active_position,
     position_entry_time |-> position_entry_time,
     position_entry_price |-> position_entry_price,
     stop_loss_price |-> stop_loss_price,
     take_profit_price |-> take_profit_price]

\* the sale clears active_position and leaves the entry and the levels
ClosedPositionKeepsLevels == [PositionState EXCEPT !.active_position = "None"]

\* lines 267-272: the position reset after a sale
ClosedPosition ==
    [active_position |-> "None",
     position_entry_time |-> PyNone,
     position_entry_price |-> PyNone,
     stop_loss_price |-> PyNone,
     take_profit_price |-> PyNone]

\* the state after a buy at price; the scalping strategy keeps no levels
OpenedPosition(kind, price) ==
    [active_position |-> "long",
     position_entry_time |-> now,
     position_entry_price |-> price,
     stop_loss_price |->
         IF kind = "scalping" THEN PyNone
         ELSE TruncDiv(price * (1000 - StopLossPermille(kind)), 1000),
     take_profit_price |->
         IF kind = "scalping" THEN PyNone
         ELSE TruncDiv(price * (1000 + ProfitTargetPermille(kind)), 1000)]

\* the position is opened before the order is looked at
BuyOutcomeEager(kind, signal, order) ==
    [state |-> OpenedPosition(kind, signal.price),
     action |-> IF order.ok THEN "buy" ELSE "error"]

\* execute_signal, buy branch, after execute_trade returned order
BuyOutcome(kind, signal, order) ==
    IF order.ok
    THEN [state |-> OpenedPosition(kind, signal.price), action |-> "buy"]
    ELSE [state |-> PositionState, action |-> "error"]

\* the position stays open after the sale
SellOutcomeKeepsOpen(kind, signal, order) ==
    [state |-> PositionState, action |-> IF order.ok THEN "sell" ELSE "error"]

\* execute_signal, sell branch, after execute_trade returned order
SellOutcome(kind, signal, order) ==
    IF order.ok
    THEN [state |-> ClosedPosition, action |-> "sell"]
    ELSE [state |-> PositionState, action |-> "error"]

\* execute_signal, buy branch: amount = position_size / signal['price'], the
\* position size being a share of the free balance capped by
\* max_trade_amount
BuyAmount(kind, signal, bal) ==
    TruncDiv(IntMin(TruncDiv(GetBalance(bal) * SizePermille(kind), 1000),
                    MaxTradeAmount) * AmountScale * FP,
             signal.price)

\* execute_signal, sell branch: position_size, the amounts of every buy of
\* the symbol in the Engine's registry added up
SellAmount == SumBuyAmounts(active_trades, DOMAIN active_trades)

\* execute_signal(signal): the new position state, the action of the result
\* and the order submitted, if any, with the side and amount asked for
ExecuteSignalOutcome(kind, signal, bal, ans) ==
    IF signal.signal = "buy" /\ active_position = "None"
    THEN LET amount == BuyAmount(kind, signal, bal)
             order  == ExecuteTrade(active_trades, live_orders, Symbol, "buy",
                                    amount, PyNone, ans)
             out    == BuyOutcome(kind, signal, order)
         IN  [state |-> out.state, action |-> out.action, orders |-> 1,
              order_ok |-> order.ok, trades |-> order.trades,
              live |-> order.live, reads |-> order.reads,
              side |-> "buy", amount |-> amount]
    ELSE IF signal.signal = "sell" /\ active_position = "long"
    THEN LET position_size == SellAmount
             order == ExecuteTrade(active_trades, live_orders, Symbol, "sell",
                                   position_size, PyNone, ans)
             out   == SellOutcome(kind, signal, order)
         IN  [state |-> out.state, action |-> out.action, orders |-> 1,
              order_ok |-> order.ok, trades |-> order.trades,
              live |-> order.live, reads |-> order.reads,
              side |-> "sell", amount |-> position_size]
    ELSE [state |-> PositionState, action |-> "none", orders |-> 0,
          order_ok |-> FALSE, trades |-> active_trades, live |-> live_orders,
          reads |-> 0, side |-> "none", amount |-> 0]

\* the assignments of execute_signal and the observation of the call op,
\* which read the market reads times (a frame of the given rows) before
\* executing
ApplySignal(op, signal, out, reads, rows) ==
    /\ active_position' = out.state.active_position
    /\ position_entry_time' = out.state.position_entry_time
    /\ position_entry_price' = out.state.position_entry_price
    /\ stop_loss_price' = out.state.stop_loss_price
    /\ take_profit_price' = out.state.take_profit_price
    /\ active_trades' = out.trades
    /\ live_orders' = out.live
    /\ st_ret' = [NoStrategyCall EXCEPT !.op = op,
                                        !.action = out.action,
                                        !.reads = reads + out.reads,
                                        !.orders = out.orders,
                                        !.order_ok = out.order_ok,
                                        !.placed = IF out.order_ok THEN 1 ELSE 0,
                                        !.signal = signal,
                                        !.side = out.side,
                                        !.amount = out.amount,
                                        !.rows = rows]

\* execute_signal(signal) called on its own
ExecuteSignal(signal, bal, ans) ==
    /\ strategy \in PositionKinds
    /\ LiveRoom
    /\ ApplySignal("execute_signal", signal,
                   ExecuteSignalOutcome(strategy, signal, bal, ans), 0, "")
    /\ UNCHANGED <<dcaVars, gridVars>>
    /\ EngineQuiet

\* run_iteration() of the momentum, scalping and swing strategies
RunIteration(snap, bal, ans) ==
    /\ strategy \in PositionKinds
    /\ LiveRoom
    /\ IF ~is_trading_active /\ active_position = "None"
       THEN /\ st_ret' = [NoStrategyCall EXCEPT !.op = "run_iteration",
                                                !.reason = Inactive]
            /\ UNCHANGED <<positionVars, active_trades, live_orders>>
       ELSE LET signal == AnalyzeMarket(strategy, snap) IN
            IF signal.raised
            THEN /\ st_ret' = [NoStrategyCall EXCEPT !.op = "run_iteration",
                                                     !.action = "absent",
                                                     !.raised = TRUE,
                                                     !.reads = 1,
                                                     !.rows = snap.rows]
                 /\ UNCHANGED <<positionVars, active_trades, live_orders>>
            ELSE ApplySignal("run_iteration", signal,
                             ExecuteSignalOutcome(strategy, signal, bal, ans),
                             1, snap.rows)
    /\ UNCHANGED <<dcaVars, gridVars>>
    /\ EngineQuiet

----------------------------------------------------------------------------
(* DCA strategy *)

InvestmentAmount == 100
IntervalHours == 24

\* max_positions of the strategy
DcaMaxPositions == 2

\* take_profit_pct; 0 models None
TakeProfitConfigs == {0, 5}

\* the interval is not looked at
ShouldInvestNoInterval == Len(positions) < DcaMaxPositions

\* the number of positions is not looked at
ShouldInvestNoCap == now - last_investment_time >= IntervalHours * SecondsPerHour

\* should_invest()
ShouldInvest ==
    /\ now - last_investment_time >= IntervalHours * SecondsPerHour
    /\ Len(positions) < DcaMaxPositions

\* a call that submits no order and leaves the strategy as it is
DcaQuiet(action, reason, reads, raised) ==
    [positions |-> positions, last |-> last_investment_time,
     trades |-> active_trades, live |-> live_orders,
     action |-> action, reason |-> reason, raised |-> raised,
     reads |-> reads, orders |-> 0, order_ok |-> FALSE,
     side |-> "none", amount |-> 0]

\* make_investment(), get_ticker answering t; a result without an 'action'
\* key has action "absent"; dividing by a None price raises TypeError
MakeInvestment(t, ans) ==
    IF ~t.ok THEN DcaQuiet("absent", "Failed to get current price", 1, FALSE)
    ELSE IF t.last = PyNone THEN DcaQuiet("absent", "", 1, TRUE)
    ELSE LET amount == TruncDiv(InvestmentAmount * AmountScale * FP, t.last)
             order  == ExecuteTrade(active_trades, live_orders, Symbol, "buy",
                                    amount, PyNone, ans)
         IN  IF order.ok
             THEN [positions |-> Append(positions,
                                        [entry_price |-> t.last,
                                         amount |-> amount,
                                         entry_time |-> now]),
                   last |-> now,
                   trades |-> order.trades, live |-> order.live,
                   action |-> "buy", reason |-> "", raised |-> FALSE,
                   reads |-> 1 + order.reads, orders |-> 1, order_ok |-> TRUE,
                   side |-> "buy", amount |-> amount]
             ELSE [DcaQuiet("error", "", 1 + order.reads, FALSE)
                      EXCEPT !.orders = 1, !.side = "buy", !.amount = amount]

\* every position is dropped
WithoutAll(seq, S, i) == << >>

\* the positions of seq whose index is not in S, from index i on
RECURSIVE Without(_, _, _)
Without(seq, S, i) ==
    IF i > Len(seq) THEN << >>
    ELSE (IF i \in S THEN << >> ELSE <<seq[i]>>) \o Without(seq, S, i + 1)

\* the total amount of the positions of seq whose index is in S
RECURSIVE TotalAmount(_, _, _)
TotalAmount(seq, S, i) ==
    IF i > Len(seq) THEN 0
    ELSE (IF i \in S THEN seq[i].amount ELSE 0) + TotalAmount(seq, S, i + 1)

\* profit_pct >= self.take_profit_pct for the position pos at price p
TakeProfitReached(pos, p) ==
    (p - pos.entry_price) * 100 >= take_profit_pct * pos.entry_price

\* check_take_profit(), get_ticker answering t: the positions at or beyond the
\* take-profit level are deleted (lines 135-138), then the sell is executed
CheckTakeProfit(t, ans) ==
    IF take_profit_pct = 0 \/ positions = << >>
    THEN DcaQuiet("none", "No take profit set or no positions", 0, FALSE)
    ELSE IF ~t.ok THEN DcaQuiet("none", "Failed to get current price", 1, FALSE)
    ELSE IF t.last = PyNone THEN DcaQuiet("absent", "", 1, TRUE)
    ELSE LET positions_to_sell ==
                 {i \in 1..Len(positions) :
                     TakeProfitReached(positions[i], t.last)}
         IN  IF positions_to_sell = {}
             THEN DcaQuiet("none", "No positions reached take profit level",
                           1, FALSE)
             ELSE LET total_amount == TotalAmount(positions, positions_to_sell, 1)
                      order == ExecuteTrade(active_trades, live_orders, Symbol, "sell",
                                            total_amount, PyNone, ans)
                  IN  [positions |-> Without(positions, positions_to_sell, 1),
                       last |-> last_investment_time,
                       trades |-> order.trades, live |-> order.live,
                       action |-> IF order.ok THEN "sell" ELSE "error",
                       reason |-> "", raised |-> FALSE,
                       reads |-> 1 + order.reads, orders |-> 1,
                       order_ok |-> order.ok,
                       side |-> "sell", amount |-> total_amount]

\* the iteration goes on whatever the Engine's flag says
DcaSuspendedNever == FALSE

\* line 191: if not self.engine.is_trading_active
DcaSuspended == ~is_trading_active

\* the result of run_iteration() of the DCA strategy
DcaIteration(t, ans) ==
    IF DcaSuspended THEN DcaQuiet("none", Inactive, 0, FALSE)
    ELSE IF ShouldInvest THEN MakeInvestment(t, ans)
    ELSE IF take_profit_pct # 0
    THEN LET r == CheckTakeProfit(t, ans)
         IN  IF r.raised \/ r.action # "none" THEN r
             ELSE [r EXCEPT !.reason = "No action needed at this time"]
    ELSE DcaQuiet("none", "No action needed at this time", 0, FALSE)

\* run_iteration() of the DCA strategy
DcaRunIteration(t, ans) ==
    /\ strategy = "dca"
    /\ LiveRoom
    /\ LET out == DcaIteration(t, ans) IN
          /\ positions' = out.positions
          /\ last_investment_time' = out.last
          /\ active_trades' = out.trades
          /\ live_orders' = out.live
          /\ st_ret' = [NoStrategyCall EXCEPT
                           !.op = "run_iteration",
                           !.action = out.action,
                           !.reason = out.reason,
                           !.raised = out.raised,
                           !.reads = out.reads,
                           !.orders = out.orders,
                           !.order_ok = out.order_ok,
                           !.placed = IF out.order_ok THEN 1 ELSE 0,
                           !.side = out.side,
                           !.amount = out.amount,
                           !.ticker = t]
    /\ UNCHANGED <<take_profit_pct, positionVars, gridVars>>
    /\ EngineQuiet

\* check_take_profit() called on its own
DcaCheckTakeProfit(t, ans) ==
    /\ strategy = "dca"
    /\ LiveRoom
    /\ LET out == CheckTakeProfit(t, ans) IN
          /\ positions' = out.positions
          /\ last_investment_time' = out.last
          /\ active_trades' = out.trades
          /\ live_orders' = out.live
          /\ st_ret' = [NoStrategyCall EXCEPT
                           !.op = "check_take_profit",
                           !.action = out.action,
                           !.reason = out.reason,
                           !.raised = out.raised,
                           !.reads = out.reads,
                           !.orders = out.orders,
                           !.order_ok = out.order_ok,
                           !.placed = IF out.order_ok THEN 1 ELSE 0,
                           !.side = out.side,
                           !.amount = out.amount,
                           !.ticker = t]
    /\ UNCHANGED <<take_profit_pct, positionVars, gridVars>>
    /\ EngineQuiet

\* number of times the clock advances under the DCA strategy alone
MaxDcaTicks == 4

AdvanceDcaClock ==
    /\ now + TickSeconds <= StartTime + MaxDcaTicks * TickSeconds
    /\ now' = now + TickSeconds

----------------------------------------------------------------------------
(* Grid strategy *)

\* grid_levels of the strategy
GridLevels == 2

TotalInvestment == 1000

\* the boundaries the strategy is built with
GridLower == Price(90)
GridUpper == Price(110)

\* prices get_ticker reports to the grid
GridTickerPrices == {Price(100), Price(120)}

\* _initialize_grid(): lower_price + i * grid_step for i in 0..grid_levels
InitializeGrid(lo, hi) ==
    [i \in 1..(GridLevels + 1) |-> lo + (i - 1) * TruncDiv(hi - lo, GridLevels)]

\* _calculate_order_size(price), price not 0
OrderSize(price) ==
    TruncDiv(TruncDiv(TotalInvestment, GridLevels) * AmountScale * FP, price)

\* one loop of place_grid_orders over the grid prices, for the buys below or
\* the sells above the current price; a grid price of 0 raises
\* ZeroDivisionError in _calculate_order_size
RECURSIVE PlaceSide(_, _, _, _, _)
PlaceSide(prices, side, cur, ans, st) ==
    IF prices = << >> \/ st.raised THEN st
    ELSE LET price  == Head(prices)
             wanted == IF side = "buy" THEN price < cur ELSE price > cur
         IN  IF ~wanted THEN PlaceSide(Tail(prices), side, cur, ans, st)
             ELSE IF price = 0 THEN [st EXCEPT !.raised = TRUE]
             ELSE LET size  == OrderSize(price)
                      order == ExecuteTrade(st.trades, st.live, Symbol, side, size,
                                            price, ans)
                  IN  PlaceSide(Tail(prices), side, cur, ans,
                         IF order.ok
                         THEN [trades |-> order.trades,
                               live |-> order.live,
                               grid_orders |->
                                   PutKey(st.grid_orders, order.id,
                                          [price |-> price, size |-> size,
                                           side |-> side]),
                               orders |-> st.orders + 1,
                               placed |-> st.placed + 1,
                               raised |-> FALSE]
                         ELSE [st EXCEPT !.orders = @ + 1])

\* place_grid_orders() on the grid gprices with the orders gorders,
\* get_ticker answering t; comparing a price with None raises TypeError
PlaceOrders(gprices, gorders, t, ans) ==
    LET st == [trades |-> active_trades, live |-> live_orders,
               grid_orders |-> gorders, orders |-> 0, placed |-> 0,
               raised |-> FALSE]
    IN  IF ~t.ok THEN st
        ELSE IF t.last = PyNone THEN [st EXCEPT !.raised = TRUE]
        ELSE PlaceSide(gprices, "sell", t.last, ans,
                       PlaceSide(gprices, "buy", t.last, ans, st))

\* place_grid_orders()
PlaceGridOrders(t, ans) ==
    /\ strategy = "grid"
    /\ LiveRoom
    /\ LET st == PlaceOrders(grid_prices, grid_orders, t, ans) IN
          /\ grid_orders' = st.grid_orders
          /\ active_trades' = st.trades
          /\ live_orders' = st.live
          /\ st_ret' = [NoStrategyCall EXCEPT !.op = "place_grid_orders",
                                              !.action = "absent",
                                              !.raised = st.raised,
                                              !.reads = 1,
                                              !.orders = st.orders,
                                              !.order_ok = st.placed > 0,
                                              !.placed = st.placed,
                                              !.ticker = t]
    /\ UNCHANGED <<lower_price, upper_price, grid_prices, last_rebalance_time,
                   last_grid_change, positionVars, dcaVars>>
    /\ EngineQuiet

\* the bounds keep the lower boundary and move the upper one
RebalanceBoundsFromLower(lo, hi, current_price) ==
    [lower |-> lo, upper |-> current_price + TruncDiv(hi - lo, 2)]

\* _rebalance_grid(current_price), the new boundaries (lines 150-155)
RebalanceBounds(lo, hi, current_price) ==
    LET half_range == TruncDiv(hi - lo, 2)
    IN  [lower |-> IntMax(current_price - half_range, 0),
         upper |-> current_price + half_range]

\* a check_and_rebalance() call that changes nothing
GridQuiet(t, reason, raised) ==
    /\ st_ret' = [NoStrategyCall EXCEPT !.op = "check_and_rebalance",
                                        !.action = "absent",
                                        !.reason = reason,
                                        !.raised = raised,
                                        !.reads = 1,
                                        !.ticker = t]
    /\ UNCHANGED <<gridVars, active_trades, live_orders>>

\* check_and_rebalance(), get_ticker answering t1, then t2 to the
\* place_grid_orders() call of _rebalance_grid
CheckAndRebalance(t1, t2, ans) ==
    /\ strategy = "grid"
    /\ LiveRoom
    /\ IF ~t1.ok THEN GridQuiet(t1, "Failed to get current price", FALSE)
       ELSE IF t1.last = PyNone THEN GridQuiet(t1, "", TRUE)
       ELSE IF t1.last > upper_price \/ t1.last < lower_price
       THEN IF now - last_rebalance_time < SecondsPerHour
            THEN GridQuiet(t1, "Rebalance cooldown period", FALSE)
            ELSE LET b  == RebalanceBounds(lower_price, upper_price, t1.last)
                     gp == InitializeGrid(b.lower, b.upper)
                     st == PlaceOrders(gp, << >>, t2, ans)
                 IN  /\ lower_price' = b.lower
                     /\ upper_price' = b.upper
                     /\ grid_prices' = gp
                     /\ grid_orders' = st.grid_orders
                     /\ active_trades' = st.trades
                     /\ live_orders' = st.live
                     /\ last_rebalance_time' =
                           IF st.raised THEN last_rebalance_time ELSE now
                     /\ last_grid_change' = now
                     /\ st_ret' = [NoStrategyCall EXCEPT
                                      !.op = "check_and_rebalance",
                                      !.action = "absent",
                                      !.raised = st.raised,
                                      !.reads = 2,
                                      !.orders = st.orders,
                                      !.order_ok = st.placed > 0,
                                      !.placed = st.placed,
                                      !.ticker = t1,
                                      !.ticker_b = t2]
       ELSE GridQuiet(t1, "Price within grid boundaries", FALSE)
    /\ UNCHANGED <<positionVars, dcaVars>>
    /\ EngineQuiet

----------------------------------------------------------------------------
(* Arbitrage strategy *)

\* threshold_pct, in 1/1000
ThresholdPermille == 5

\* the two exchanges of the strategy
ExchangeA == "exchange_a"
ExchangeB == "exchange_b"

\* answers of the two exchanges' fetch_ticker: it raises, or the ticker has
\* no price, or a price
ArbitrageTickers ==
    {TickerEmpty, TickerNoLast, TickerAt(0), TickerAt(Price(100)),
     TickerAt(Price(100) + 50), TickerAt(Price(101)), TickerAt(Price(102))}

\* the spread taken relative to the higher of the two prices
SpreadPctOfHigher(price_a, price_b) ==
    (Abs(price_a - price_b) * 10000) \div IntMax(price_a, price_b)

\* spread_pct = (spread / min(price_a, price_b)) * 100, in 1/100 of a percent
\* (rounded down), for positive prices
SpreadPct(price_a, price_b) ==
    (Abs(price_a - price_b) * 10000) \div IntMin(price_a, price_b)

\* every spread triggers
SpreadReachedAlways(price_a, price_b) == TRUE

\* spread_pct >= self.threshold_pct, for positive prices
SpreadReached(price_a, price_b) ==
    Abs(price_a - price_b) * 1000
        >= ThresholdPermille * IntMin(price_a, price_b)

\* analyze_market() of the arbitrage strategy: every exception of the
\* analysis (a failing fetch_ticker, a price of None, a lower price of 0) is
\* caught and becomes the signal 'error'
ArbitrageAnalyzeMarket(ta, tb) ==
    IF ~ta.ok THEN [NoArbitrageSignal EXCEPT !.signal = "error", !.reads = 1]
    ELSE IF ~tb.ok \/ ta.last = PyNone \/ tb.last = PyNone
              \/ IntMin(ta.last, tb.last) = 0
    THEN [NoArbitrageSignal EXCEPT !.signal = "error", !.reads = 2]
    ELSE IF SpreadReached(ta.last, tb.last)
    THEN IF ta.last < tb.last
         THEN [signal |-> "arbitrage",
               buy_exchange |-> ExchangeA, sell_exchange |-> ExchangeB,
               buy_price |-> ta.last, sell_price |-> tb.last,
               spread_pct |-> SpreadPct(ta.last, tb.last), reads |-> 2]
         ELSE [signal |-> "arbitrage",
               buy_exchange |-> ExchangeB, sell_exchange |-> ExchangeA,
               buy_price |-> tb.last, sell_price |-> ta.last,
               spread_pct |-> SpreadPct(ta.last, tb.last), reads |-> 2]
    ELSE [NoArbitrageSignal EXCEPT !.reads = 2]

\* analyze_market() followed by execute_signal() of the arbitrage strategy
ArbitrageOutcome(ta, tb) ==
    LET signal == ArbitrageAnalyzeMarket(ta, tb) IN
    IF signal.signal = "arbitrage"
    THEN [action |-> "arbitrage", reason |-> "", reads |-> signal.reads,
          details |-> signal]
    ELSE [action |-> "none",
          reason |-> IF signal.signal = "error" THEN "error"
                     ELSE "Spread below threshold",
          reads |-> signal.reads, details |-> signal]

\* run_iteration() of the arbitrage strategy
ArbitrageRunIteration(ta, tb) ==
    /\ strategy = "arbitrage"
    /\ LET out == ArbitrageOutcome(ta, tb) IN
          st_ret' = [NoStrategyCall EXCEPT !.op = "run_iteration",
                                           !.action = out.action,
                                           !.reason = out.reason,
                                           !.reads = out.reads,
                                           !.details = out.details,
                                           !.ticker = ta,
                                           !.ticker_b = tb]
    /\ UNCHANGED <<positionVars, dcaVars, gridVars, active_trades, live_orders>>
    /\ EngineQuiet

----------------------------------------------------------------------------
(* Strategies: construction *)

StrategyKinds == {"grid", "dca", "momentum", "scalping", "swing", "arbitrage"}

\* one strategy of one of the kinds, attached to the Engine
StrategyInit(kinds, take_profits) ==
    /\ strategy \in kinds
    /\ active_position = "None"
    /\ position_entry_time = PyNone
    /\ position_entry_price = PyNone
    /\ stop_loss_price = PyNone
    /\ take_profit_price = PyNone
    /\ positions = << >>
    /\ last_investment_time = 0
    /\ take_profit_pct \in (IF strategy = "dca" THEN take_profits ELSE {0})
    /\ lower_price = GridLower
    /\ upper_price = GridUpper
    /\ grid_prices = InitializeGrid(GridLower, GridUpper)
    /\ grid_orders = << >>
    /\ last_rebalance_time = 0
    /\ last_grid_change = 0
    /\ live_orders = 0
    /\ st_ret = NoStrategyCall

----------------------------------------------------------------------------
(* Specification of the Engine's market-condition scoring *)

\* an Engine in paper mode with the default thresholds
EngineInitDefault ==
    /\ EngineInit
    /\ trading_mode = "paper"
    /\ min_market_condition_score = DefaultMinScore
    /\ auto_resume_threshold = DefaultResumeThreshold

InitEngine ==
    /\ EngineInit
    /\ StopLossInit({<<2, 5, TRUE, FALSE>>})
    /\ StrategyInit({"momentum"}, {0})

NextEngine ==
    \/ /\ \E dfs \in ScoreCalls : UpdateMarketCondition(dfs)
       /\ UNCHANGED <<slVars, strategyVars>>
    \/ /\ \E a \in BOOLEAN : SetTradingStatus(a)
       /\ UNCHANGED <<slVars, strategyVars>>

SpecEngine == InitEngine /\ [][NextEngine]_vars

\* the scoring when candle data is missing for some or all of the symbols
NextMissingData ==
    \/ /\ \E dfs \in MissingCalls : UpdateMarketCondition(dfs)
       /\ UNCHANGED <<slVars, strategyVars>>
    \/ /\ \E a \in BOOLEAN : SetTradingStatus(a)
       /\ UNCHANGED <<slVars, strategyVars>>

SpecMissingData == InitEngine /\ [][NextMissingData]_vars

----------------------------------------------------------------------------
(* Specification of the stop-loss module *)

TickersAt(prices) == {TickerEmpty, TickerNoLast} \cup {TickerAt(p) : p \in prices}

\* the module's operations on the positions ids, at the given prices and
\* with the given answers to the ATR fetch
StopLossStep(ids, prices, frames) ==
    \/ /\ \E id \in ids, e \in EntryPrices, side \in {"long", "short"},
             f \in frames :
             RegisterPosition(id, e, 1, side, f)
       /\ UNCHANGED <<now, engineVars, strategyVars>>
    \/ /\ \E id \in ids, p \in prices : UpdatePosition(id, p)
       /\ UNCHANGED <<now, engineVars, strategyVars>>
    \/ /\ \E t \in TickersAt(prices) : CheckPositions(t)
       /\ UNCHANGED <<now, engineVars, strategyVars>>
    \/ /\ \E id \in ids : RemovePosition(id)
       /\ UNCHANGED <<now, engineVars, strategyVars>>
    \/ /\ AdvanceClock
       /\ UNCHANGED <<engineVars, slVars, strategyVars>>

\* one position, every configuration, price and ATR answer
InitStopLoss ==
    /\ EngineInitDefault
    /\ StopLossInit(StopLossConfigs)
    /\ StrategyInit({"momentum"}, {0})

NextStopLoss == StopLossStep({"p1"}, StopLossPrices, AtrFrames)

SpecStopLoss == InitStopLoss /\ [][NextStopLoss]_vars

\* two positions tracked together, at a price below and a price above the
\* initial stops
PairPrices == {Price(98), Price(110)}

InitStopLossPair ==
    /\ EngineInitDefault
    /\ StopLossInit({<<2, 5, TRUE, FALSE>>})
    /\ StrategyInit({"momentum"}, {0})

NextStopLossPair == StopLossStep(PositionIds, PairPrices, {"empty"})

SpecStopLossPair == InitStopLossPair /\ [][NextStopLossPair]_vars

----------------------------------------------------------------------------
(* Specification of the Engine's order execution *)

InitTrades ==
    /\ EngineInit
    /\ min_market_condition_score = DefaultMinScore
    /\ auto_resume_threshold = DefaultResumeThreshold
    /\ StopLossInit({<<2, 5, TRUE, FALSE>>})
    /\ StrategyInit({"momentum"}, {0})

NextTrades ==
    \/ /\ \E symbol \in TradeSymbols, side \in {"buy", "sell"},
             amount \in TradeAmounts, price \in TradePrices,
             ans \in ExecAnswers(ExecPrices) :
             ExecuteTradeCall(symbol, side, amount, price, ans)
       /\ UNCHANGED <<slVars, strategy, positionVars, dcaVars, gridVars, st_ret>>
    \/ /\ AdvanceClock
       /\ now < StartTime + StrategyTicks * TickSeconds
       /\ UNCHANGED <<engineVars, slVars, strategyVars>>

SpecTrades == InitTrades /\ [][NextTrades]_vars

----------------------------------------------------------------------------
(* Specification of the strategies *)

Signals ==
    [signal : {"buy", "sell", "none"}, price : MarketPrices, raised : {FALSE},
     reason : {""}]

\* an Engine step between two strategy calls
BetweenCalls ==
    /\ st_ret' = NoStrategyCall
    /\ UNCHANGED <<strategy, positionVars, dcaVars, gridVars, live_orders, slVars>>

InitStrategies ==
    /\ EngineInit
    /\ min_market_condition_score = DefaultMinScore
    /\ auto_resume_threshold = DefaultResumeThreshold
    /\ StopLossInit({<<2, 5, TRUE, FALSE>>})
    /\ StrategyInit(StrategyKinds, TakeProfitConfigs)

NextStrategies ==
    \/ \E snap \in Snapshots, bal \in BalanceAnswers,
          ans \in ExecAnswers(ExecPrices) : RunIteration(snap, bal, ans)
    \/ \E signal \in Signals, bal \in BalanceAnswers,
          ans \in ExecAnswers(ExecPrices) : ExecuteSignal(signal, bal, ans)
    \/ \E t \in TickersAt(MarketPrices), ans \in ExecAnswers(ExecPrices) :
          DcaRunIteration(t, ans)
    \/ \E t \in TickersAt(GridTickerPrices), ans \in ExecAnswers(ExecPrices) :
          PlaceGridOrders(t, ans)
    \/ \E t1, t2 \in TickersAt(GridTickerPrices),
          ans \in ExecAnswers(ExecPrices) : CheckAndRebalance(t1, t2, ans)
    \/ \E ta, tb \in ArbitrageTickers : ArbitrageRunIteration(ta, tb)
    \/ /\ \E a \in BOOLEAN : SetTradingStatus(a)
       /\ BetweenCalls
    \/ /\ AdvanceClock
       /\ strategy # "dca" => now < StartTime + StrategyTicks * TickSeconds
       /\ BetweenCalls
       /\ UNCHANGED engineVars

SpecStrategies == InitStrategies /\ [][NextStrategies]_vars

\* the arbitrage strategy alone
InitArbitrage ==
    /\ EngineInit
    /\ min_market_condition_score = DefaultMinScore
    /\ auto_resume_threshold = DefaultResumeThreshold
    /\ StopLossInit({<<2, 5, TRUE, FALSE>>})
    /\ StrategyInit({"arbitrage"}, {0})

NextArbitrage ==
    \/ \E ta, tb \in ArbitrageTickers : ArbitrageRunIteration(ta, tb)
    \/ /\ \E a \in BOOLEAN : SetTradingStatus(a)
       /\ BetweenCalls
    \/ /\ AdvanceClock
       /\ BetweenCalls
       /\ UNCHANGED engineVars

SpecArbitrage == InitArbitrage /\ [][NextArbitrage]_vars

\* the DCA strategy alone
InitDca ==
    /\ EngineInit
    /\ min_market_condition_score = DefaultMinScore
    /\ auto_resume_threshold = DefaultResumeThreshold
    /\ StopLossInit({<<2, 5, TRUE, FALSE>>})
    /\ StrategyInit({"dca"}, TakeProfitConfigs)

NextDca ==
    \/ \E t \in TickersAt(MarketPrices), ans \in ExecAnswers(ExecPrices) :
          DcaRunIteration(t, ans)
    \/ \E t \in TickersAt(MarketPrices), ans \in ExecAnswers(ExecPrices) :
          DcaCheckTakeProfit(t, ans)
    \/ /\ \E a \in BOOLEAN : SetTradingStatus(a)
       /\ BetweenCalls
    \/ /\ AdvanceDcaClock
       /\ BetweenCalls
       /\ UNCHANGED engineVars

SpecDca == InitDca /\ [][NextDca]_vars

\* the grid strategy alone; rebalances at a price above the first grid and
\* at one closer to 0 than half its range, orders also at its middle level
RebalancePrices == {Price(6), Price(120)}

\* a ticker with a None price is answered to the first read only
InitGrid ==
    /\ EngineInit
    /\ min_market_condition_score = DefaultMinScore
    /\ auto_resume_threshold = DefaultResumeThreshold
    /\ StopLossInit({<<2, 5, TRUE, FALSE>>})
    /\ StrategyInit({"grid"}, {0})

NextGrid ==
    \/ \E t \in TickersAt(RebalancePrices \cup {Price(100)}),
          ans \in ExecAnswers(ExecPrices) : PlaceGridOrders(t, ans)
    \/ \E t1 \in TickersAt(RebalancePrices),
          t2 \in TickersAt(RebalancePrices) \ {TickerNoLast},
          ans \in ExecAnswers(ExecPrices) : CheckAndRebalance(t1, t2, ans)
    \/ /\ AdvanceClock
       /\ now < StartTime + StrategyTicks * TickSeconds
       /\ BetweenCalls
       /\ UNCHANGED engineVars

SpecGrid == InitGrid /\ [][NextGrid]_vars

\* the momentum, scalping and swing strategies alone
InitPosition ==
    /\ EngineInit
    /\ min_market_condition_score = DefaultMinScore
    /\ auto_resume_threshold = DefaultResumeThreshold
    /\ StopLossInit({<<2, 5, TRUE, FALSE>>})
    /\ StrategyInit(PositionKinds, {0})

NextPosition ==
    \/ \E snap \in Snapshots, bal \in BalanceAnswers,
          ans \in ExecAnswers(ExecPrices) : RunIteration(snap, bal, ans)
    \/ \E signal \in Signals, bal \in BalanceAnswers,
          ans \in ExecAnswers(ExecPrices) : ExecuteSignal(signal, bal, ans)
    \/ /\ \E a \in BOOLEAN : SetTradingStatus(a)
       /\ BetweenCalls
    \/ /\ AdvanceClock
       /\ now < StartTime + StrategyTicks * TickSeconds
       /\ BetweenCalls
       /\ UNCHANGED engineVars

SpecPosition == InitPosition /\ [][NextPosition]_vars

\* a momentum, scalping or swing strategy and a second strategy instance on
\* the same Engine, whose orders reach the Engine between the iterations of
\* the first
OtherStrategyTrade(symbol, side, amount, ans) ==
    /\ ExecuteTradeCall(symbol, side, amount, PyNone, ans)
    /\ st_ret' = NoStrategyCall
    /\ UNCHANGED <<slVars, strategy, positionVars, dcaVars, gridVars>>

OtherSymbols == {"BTC/USDT", "ETH/USDT"}

\* the amount of the second strategy's orders
OtherAmount == Amount(1)

InitShared ==
    /\ EngineInit
    /\ min_market_condition_score = DefaultMinScore
    /\ auto_resume_threshold = DefaultResumeThreshold
    /\ StopLossInit({<<2, 5, TRUE, FALSE>>})
    /\ StrategyInit({"momentum"}, {0})

NextShared ==
    \/ \E snap \in Snapshots, bal \in BalanceAnswers,
          ans \in ExecAnswers(ExecPrices) : RunIteration(snap, bal, ans)
    \/ \E symbol \in OtherSymbols, side \in {"buy", "sell"},
          ans \in ExecAnswers(ExecPrices) :
          OtherStrategyTrade(symbol, side, OtherAmount, ans)
    \/ /\ \E a \in BOOLEAN : SetTradingStatus(a)
       /\ BetweenCalls
    \/ /\ AdvanceClock
       /\ now < StartTime + StrategyTicks * TickSeconds
       /\ BetweenCalls
       /\ UNCHANGED engineVars

SpecShared == InitShared /\ [][NextShared]_vars

\* the four strategies whose run_iteration looks at the Engine's flag
GatedKinds == PositionKinds \cup {"dca"}

InitGated ==
    /\ EngineInit
    /\ min_market_condition_score = DefaultMinScore
    /\ auto_resume_threshold = DefaultResumeThreshold
    /\ StopLossInit({<<2, 5, TRUE, FALSE>>})
    /\ StrategyInit(GatedKinds, TakeProfitConfigs)

NextGated ==
    \/ \E snap \in Snapshots, bal \in BalanceAnswers,
          ans \in ExecAnswers(ExecPrices) : RunIteration(snap, bal, ans)
    \/ \E t \in TickersAt(MarketPrices), ans \in ExecAnswers(ExecPrices) :
          DcaRunIteration(t, ans)
    \/ /\ \E a \in BOOLEAN : SetTradingStatus(a)
       /\ BetweenCalls
    \/ /\ AdvanceClock
       /\ strategy # "dca" => now < StartTime + StrategyTicks * TickSeconds
       /\ BetweenCalls
       /\ UNCHANGED engineVars

SpecGated == InitGated /\ [][NextGated]_vars

\* the DCA strategy on an asset quoted at 0.50: the amount bought for
\* investment_amount exceeds max_trade_amount
CheapPrices == {FP \div 2}

NextCheap ==
    \/ \E t \in TickersAt(CheapPrices), ans \in ExecAnswers(ExecPrices) :
          DcaRunIteration(t, ans)
    \/ /\ \E a \in BOOLEAN : SetTradingStatus(a)
       /\ BetweenCalls
    \/ /\ AdvanceDcaClock
       /\ BetweenCalls
       /\ UNCHANGED engineVars

SpecCheap == InitDca /\ [][NextCheap]_vars

----------------------------------------------------------------------------
(* Claims *)

\* C1: in an update_market_condition call, is_trading_active goes from
\* inactive to active only when the newly computed score is >=
\* auto_resume_threshold, from active to inactive only when it is <
\* min_market_condition_score, and does not change when the score s has
\* min_market_condition_score <= s < auto_resume_threshold.
C1_Hysteresis ==
    [][ engine_ret'.op = "update_market_condition" =>
          /\ (~is_trading_active /\ is_trading_active') =>
                (~engine_ret'.raised /\ engine_ret'.score >= auto_resume_threshold)
          /\ (is_trading_active /\ ~is_trading_active') =>
                (~engine_ret'.raised /\ engine_ret'.score < min_market_condition_score)
          /\ ( /\ ~engine_ret'.raised
               /\ min_market_condition_score <= engine_ret'.score
               /\ engine_ret'.score < auto_resume_threshold ) =>
                is_trading_active' = is_trading_active ]_vars

\* a call resumed trading and a later call, with the default thresholds,
\* suspended it again
C1_Witness ==
    /\ engine_ret.op = "update_market_condition"
    /\ ~engine_ret.raised
    /\ engine_ret.was_active
    /\ ~is_trading_active
    /\ min_market_condition_score = DefaultMinScore
    /\ auto_resume_threshold = DefaultResumeThreshold

\* C2: in every reachable state market_condition_score is an integer in
\* [0,100], whether the update calls succeeded or failed.
C2_ScoreRange == market_condition_score \in 0..100

\* a failed call (nan in the computation) after a successful one
C2_Witness ==
    /\ engine_ret.op = "update_market_condition"
    /\ engine_ret.raised
    /\ market_condition_score > 0

\* C3: after update_position(id, p) on a tracked position, the position is
\* flagged triggered whenever it is long and p <= its stop_loss_price as
\* adjusted in that call, or short and p >= its stop_loss_price; a position
\* not flagged before the call is not flagged when neither holds.
C3_StopTrigger ==
    [][ ( /\ sl_ret'.op = "update_position"
          /\ now' = now
          /\ sl_ret'.id \in DOMAIN sl_positions ) =>
          LET before == sl_positions[sl_ret'.id]
              after  == sl_positions'[sl_ret'.id]
              p      == after.current_price
              hit    == \/ after.side = "long" /\ p <= after.stop_loss_price
                        \/ after.side = "short" /\ p >= after.stop_loss_price
          IN  /\ hit => after.stop_loss_triggered
              /\ (~before.stop_loss_triggered /\ ~hit) =>
                     ~after.stop_loss_triggered ]_vars

\* an update at a price equal to the stop flagged a long position
C3_Witness ==
    /\ sl_ret.op = "update_position"
    /\ sl_ret.id \in DOMAIN sl_positions
    /\ sl_positions[sl_ret.id].side = "long"
    /\ sl_positions[sl_ret.id].current_price = sl_positions[sl_ret.id].stop_loss_price
    /\ sl_positions[sl_ret.id].stop_loss_triggered

\* C4: over the update_position calls on a tracked position the stop only
\* tightens: a long position's stop_loss_price never decreases and a short
\* position's never increases, at the breakeven step and at every trailing
\* adjustment.
C4_StopOnlyTightens ==
    [][ ( /\ sl_ret'.op \in {"update_position", "check_positions"}
          /\ now' = now ) =>
          \A id \in DOMAIN sl_positions \cap DOMAIN sl_positions' :
              /\ sl_positions[id].side = "long" =>
                    sl_positions'[id].stop_loss_price >= sl_positions[id].stop_loss_price
              /\ sl_positions[id].side = "short" =>
                    sl_positions'[id].stop_loss_price <= sl_positions[id].stop_loss_price
      ]_vars

\* a long position whose stop went to breakeven and was then trailed above
\* the entry price
C4_Witness ==
    \E id \in DOMAIN sl_positions :
        /\ sl_positions[id].side = "long"
        /\ sl_positions[id].stop_loss_updated
        /\ sl_positions[id].stop_loss_price > sl_positions[id].entry_price

\* C5: the breakeven migration happens at most once over a position's life,
\* and only in an update_position call made at least 24 hours after
\* entry_time, when the best-seen price is beyond 1% of the entry (highest
\* above entry * 1.01 for a long, lowest below entry * 0.99 for a short).
C5_BreakevenOnce ==
    [][ \A id \in DOMAIN breakeven_moves' :
          /\ breakeven_moves'[id] <= 1
          /\ ( /\ id \in DOMAIN breakeven_moves
               /\ breakeven_moves'[id] > breakeven_moves[id] ) =>
                /\ sl_ret'.op \in {"update_position", "check_positions"}
                /\ id \in DOMAIN sl_positions
                /\ LET old == sl_positions[id]
                       p   == IF sl_ret'.op = "check_positions"
                              THEN sl_ret'.ticker.last
                              ELSE sl_positions'[id].current_price
                   IN  /\ ~old.stop_loss_updated
                       /\ now - old.entry_time >= 24 * 3600
                       /\ old.side = "long" =>
                             IntMax(old.highest_price.v, p) * 100 > old.entry_price * 101
                       /\ old.side = "short" =>
                             IntMin(old.lowest_price, p) * 100 < old.entry_price * 99
                       /\ id \in DOMAIN sl_positions' =>
                             /\ sl_positions'[id].stop_loss_updated
                             /\ sl_positions'[id].stop_loss_price = old.entry_price
      ]_vars

\* a short position that migrated to breakeven and was updated again
C5_Witness ==
    /\ sl_ret.op = "update_position"
    /\ sl_ret.id \in DOMAIN sl_positions
    /\ breakeven_moves[sl_ret.id] = 1
    /\ sl_positions[sl_ret.id].side = "short"
    /\ sl_positions[sl_ret.id].current_price > sl_positions[sl_ret.id].lowest_price

\* C6 as stated: a check_positions call that obtains ticker price p returns
\* exactly the tracked positions whose stop is hit at p, removes exactly
\* those and keeps every other position tracked; with no ticker it returns
\* an empty list and leaves the positions unchanged.
C6_ReturnsExactlyHit ==
    [][ (sl_ret'.op = "check_positions" /\ now' = now) =>
          LET t      == sl_ret'.ticker
              ret    == sl_ret'.returned
              retIds == {ret[i].id : i \in 1..Len(ret)}
          IN  /\ ~t.ok => (ret = << >> /\ sl_positions' = sl_positions)
              /\ (t.ok /\ t.last # PyNone) =>
                    /\ retIds \subseteq DOMAIN sl_positions
                    /\ Cardinality(retIds) = Len(ret)
                    /\ DOMAIN sl_positions' = DOMAIN sl_positions \ retIds
                    /\ \A i \in 1..Len(ret) :
                          \/ /\ ret[i].position.side = "long"
                             /\ t.last <= ret[i].position.stop_loss_price
                          \/ /\ ret[i].position.side = "short"
                             /\ t.last >= ret[i].position.stop_loss_price
                    /\ \A id \in DOMAIN sl_positions' :
                          ~ \/ /\ sl_positions'[id].side = "long"
                               /\ t.last <= sl_positions'[id].stop_loss_price
                            \/ /\ sl_positions'[id].side = "short"
                               /\ t.last >= sl_positions'[id].stop_loss_price
      ]_vars

\* C6, amended: the call returns exactly the tracked positions that are
\* flagged triggered once updated at p: those whose stop, as adjusted in the
\* call, is hit at p and those already flagged by an earlier update_position
\* call; it removes exactly those and keeps every other position tracked;
\* with no ticker it returns an empty list and leaves the positions unchanged.
C6_ReturnsExactlyFlagged ==
    [][ (sl_ret'.op = "check_positions" /\ now' = now) =>
          LET t      == sl_ret'.ticker
              ret    == sl_ret'.returned
              retIds == {ret[i].id : i \in 1..Len(ret)}
          IN  /\ ~t.ok => (ret = << >> /\ sl_positions' = sl_positions)
              /\ (t.ok /\ t.last # PyNone) =>
                    /\ retIds \subseteq DOMAIN sl_positions
                    /\ Cardinality(retIds) = Len(ret)
                    /\ DOMAIN sl_positions' = DOMAIN sl_positions \ retIds
                    /\ \A i \in 1..Len(ret) :
                          /\ ret[i].position.current_price = t.last
                          /\ \/ sl_positions[ret[i].id].stop_loss_triggered
                             \/ /\ ret[i].position.side = "long"
                                /\ t.last <= ret[i].position.stop_loss_price
                             \/ /\ ret[i].position.side = "short"
                                /\ t.last >= ret[i].position.stop_loss_price
                    /\ \A id \in DOMAIN sl_positions' :
                          /\ sl_positions'[id].current_price = t.last
                          /\ ~sl_positions[id].stop_loss_triggered
                          /\ ~ \/ /\ sl_positions'[id].side = "long"
                                  /\ t.last <= sl_positions'[id].stop_loss_price
                               \/ /\ sl_positions'[id].side = "short"
                                  /\ t.last >= sl_positions'[id].stop_loss_price
      ]_vars

\* of two tracked positions the call returned and removed the one whose stop
\* is hit at p and kept the other
C6_Witness ==
    /\ sl_ret.op = "check_positions"
    /\ sl_ret.ticker.ok
    /\ sl_ret.ticker.last # PyNone
    /\ Len(sl_ret.returned) = 1
    /\ sl_ret.returned[1].position.side = "long"
    /\ sl_ret.ticker.last <= sl_ret.returned[1].position.stop_loss_price
    /\ Cardinality(DOMAIN sl_positions) = 1

\* C7: for the momentum, scalping and swing strategies, when the order
\* execute_signal submits comes back without an id, for a buy or a sell, the
\* result has action 'error' and active_position, the entry price and time
\* and the stop-loss and take-profit prices are what they were; on a
\* successful buy the position is long with the signal price as entry price.
C7_FailureLeavesPosition ==
    [][ ( /\ strategy \in PositionKinds
          /\ st_ret'.op \in {"execute_signal", "run_iteration"}
          /\ st_ret'.orders = 1 ) =>
          /\ ~st_ret'.order_ok =>
                /\ st_ret'.action = "error"
                /\ UNCHANGED positionVars
          /\ (st_ret'.order_ok /\ st_ret'.signal.signal = "buy") =>
                /\ active_position' = "long"
                /\ position_entry_price' = st_ret'.signal.price ]_vars

\* a sell whose order failed left the long position open
C7_Witness ==
    /\ strategy \in PositionKinds
    /\ st_ret.orders = 1
    /\ ~st_ret.order_ok
    /\ st_ret.action = "error"
    /\ st_ret.signal.signal = "sell"
    /\ active_position = "long"

\* C8: for the DCA strategy, when the order of an investment buy or of a
\* take-profit sell comes back without an id, the result has action 'error'
\* and the position list and last_investment_time are what they were.
C8_DcaFailureLeavesState ==
    [][ ( /\ strategy = "dca"
          /\ st_ret'.op = "run_iteration"
          /\ st_ret'.orders = 1
          /\ ~st_ret'.order_ok ) =>
          /\ st_ret'.action = "error"
          /\ positions' = positions
          /\ last_investment_time' = last_investment_time ]_vars

\* C9: whatever the market-data and execution ports answer, run_iteration
\* returns a result and does not raise.
C9_IterationNeverRaises == st_ret.op = "run_iteration" => ~st_ret.raised

\* C10: when trading is inactive and the strategy holds no open position,
\* the iteration entry point of each strategy returns action 'none' with the
\* reason that trading is not active, reads no market data, submits no order
\* and changes no strategy state.
C10_InactiveIsNoOp ==
    [][ ( /\ st_ret'.op \in {"run_iteration", "check_and_rebalance"}
          /\ ~is_trading_active
          /\ active_position = "None"
          /\ positions = << >>
          /\ DOMAIN grid_orders = {} ) =>
          /\ st_ret'.action = "none"
          /\ st_ret'.reason = Inactive
          /\ st_ret'.reads = 0
          /\ st_ret'.orders = 0
          /\ UNCHANGED <<positionVars, dcaVars, gridVars>> ]_vars

\* C11: for every strategy that holds open positions (momentum, scalping,
\* swing, and DCA with a take-profit configured), when trading is inactive
\* and an exit condition of an open position holds at the current price,
\* run_iteration still evaluates the exit and submits the sell.
C11_ExitWhileInactive ==
    [][ ( /\ st_ret'.op = "run_iteration"
          /\ ~st_ret'.raised
          /\ ~is_trading_active ) =>
          /\ ( /\ strategy \in PositionKinds
               /\ active_position = "long"
               /\ st_ret'.signal.price # PyNone
               /\ ExitDue(strategy, st_ret'.signal.price) ) =>
                  /\ st_ret'.signal.signal = "sell"
                  /\ st_ret'.orders = 1
          /\ ( /\ strategy = "dca"
               /\ take_profit_pct # 0
               /\ st_ret'.ticker.ok
               /\ st_ret'.ticker.last # PyNone
               /\ \E i \in 1..Len(positions) :
                     TakeProfitReached(positions[i], st_ret'.ticker.last) ) =>
                  /\ st_ret'.side = "sell"
                  /\ st_ret'.orders = 1 ]_vars

\* C12: every execute_trade call, in paper or live mode, returns without
\* raising either an order with a non-empty id, and the registry then holds
\* an entry under that id with the call's symbol, side and clamped amount,
\* or a record with an 'error' field, and the registry is unchanged.
C12_OrderOrError ==
    [][ (engine_ret'.op = "execute_trade" /\ now' = now) =>
          LET r == engine_ret' IN
          /\ ~r.raised
          /\ r.ok =>
                /\ r.id # << >>
                /\ r.id \in DOMAIN active_trades'
                /\ active_trades'[r.id].symbol = r.symbol
                /\ active_trades'[r.id].side = r.side
                /\ active_trades'[r.id].amount =
                      IntMin(r.amount, Amount(MaxTradeAmount))
          /\ ~r.ok => active_trades' = active_trades ]_vars

\* a call failed after an earlier one had been tracked
C12_Witness ==
    /\ engine_ret.op = "execute_trade"
    /\ ~engine_ret.ok
    /\ DOMAIN active_trades # {}

\* C13: in every reachable state every entry of the active-trade registry
\* has amount <= max_trade_amount, whatever amounts are requested.
C13_AmountsClamped ==
    \A id \in DOMAIN active_trades :
        active_trades[id].amount <= Amount(MaxTradeAmount)

\* a request above the maximum was tracked with the maximum
C13_Witness ==
    /\ engine_ret.op = "execute_trade"
    /\ engine_ret.ok
    /\ engine_ret.amount > Amount(MaxTradeAmount)
    /\ active_trades[engine_ret.id].amount = Amount(MaxTradeAmount)

\* C14: every successful execute_trade adds a new entry to the registry:
\* whatever the timing, symbols and sides of the executions, the registry
\* grows by exactly one entry and no earlier entry is overwritten or removed.
C14_RegistryGrows ==
    [][ ( /\ engine_ret'.op = "execute_trade"
          /\ now' = now
          /\ engine_ret'.ok ) =>
          /\ Cardinality(DOMAIN active_trades') =
                Cardinality(DOMAIN active_trades) + 1
          /\ \A id \in DOMAIN active_trades :
                /\ id \in DOMAIN active_trades'
                /\ active_trades'[id] = active_trades[id] ]_vars

\* C15: grid check_and_rebalance changes the grid (bounds, ladder, tracked
\* orders, last_rebalance_time) only when the current price is strictly
\* outside [lower_price, upper_price] and at least 3600 seconds have passed
\* since the last rebalance; in every other case, including an unavailable
\* ticker, the grid state is unchanged and no order is submitted, so two
\* rebalances are never less than one hour apart.
C15_RebalanceOnlyWhenDue ==
    [][ (strategy = "grid" /\ st_ret'.op = "check_and_rebalance") =>
          LET t       == st_ret'.ticker
              outside == /\ t.ok
                         /\ t.last # PyNone
                         /\ (t.last > upper_price \/ t.last < lower_price)
              cooled  == now - last_rebalance_time >= 3600
              changed == <<lower_price, upper_price, grid_prices, grid_orders,
                           last_rebalance_time>>' #
                         <<lower_price, upper_price, grid_prices, grid_orders,
                           last_rebalance_time>>
          IN  /\ ~(outside /\ cooled) => (~changed /\ st_ret'.orders = 0)
              /\ changed => (outside /\ cooled)
              /\ (changed /\ last_grid_change # 0) =>
                    now - last_grid_change >= 3600 ]_vars

C17_OneOrderPerLevel ==
    [][ ( /\ strategy = "grid"
          /\ st_ret'.op = "place_grid_orders"
          /\ DOMAIN grid_orders = {}
          /\ st_ret'.ticker.ok
          /\ st_ret'.ticker.last # PyNone
          /\ ~st_ret'.raised
          /\ st_ret'.placed = st_ret'.orders ) =>
          LET p      == st_ret'.ticker.last
              levels == {grid_prices[i] : i \in 1..Len(grid_prices)}
              at(l, side) == {id \in DOMAIN grid_orders' :
                                 /\ grid_orders'[id].price = l
                                 /\ grid_orders'[id].side = side}
          IN  /\ Cardinality(DOMAIN grid_orders') =
                    Cardinality({l \in levels : l # p})
              /\ \A l \in levels :
                    /\ l < p => ( /\ Cardinality(at(l, "buy")) = 1
                                  /\ at(l, "sell") = {} )
                    /\ l > p => ( /\ Cardinality(at(l, "sell")) = 1
                                  /\ at(l, "buy") = {} )
                    /\ l = p => (at(l, "buy") = {} /\ at(l, "sell") = {})
      ]_vars

\* C18: on a DCA run_iteration with trading active: if at least
\* interval_hours have passed since the last successful investment, the
\* position count is below max_positions, and the ticker and the execution
\* succeed, then exactly one buy of investment_amount/price units is
\* submitted, the position count grows by exactly 1 and
\* last_investment_time is set to now; if the investment is not due, no buy
\* is submitted and the position count does not grow.
C18_InvestsWhenDue ==
    [][ ( /\ strategy = "dca"
          /\ st_ret'.op = "run_iteration"
          /\ is_trading_active ) =>
          LET t   == st_ret'.ticker
              due == /\ now - last_investment_time >= IntervalHours * 3600
                     /\ Len(positions) < DcaMaxPositions
          IN  /\ ( /\ due
                   /\ t.ok
                   /\ t.last # PyNone
                   /\ st_ret'.order_ok ) =>
                      /\ st_ret'.orders = 1
                      /\ st_ret'.side = "buy"
                      /\ st_ret'.amount * t.last <=
                            InvestmentAmount * AmountScale * FP
                      /\ (st_ret'.amount + 1) * t.last >
                            InvestmentAmount * AmountScale * FP
                      /\ Len(positions') = Len(positions) + 1
                      /\ last_investment_time' = now
              /\ ~due =>
                      /\ st_ret'.side # "buy"
                      /\ Len(positions') <= Len(positions) ]_vars

\* a second investment, made one interval after the first
C18_Witness ==
    /\ strategy = "dca"
    /\ st_ret.op = "run_iteration"
    /\ st_ret.action = "buy"
    /\ Len(positions) = 2
    /\ last_investment_time = now
    /\ positions[1].entry_time + IntervalHours * 3600 <= now

\* C19: for any sequence of DCA run_iteration calls, the number of held DCA
\* positions never exceeds max_positions.
C19_PositionsCapped == Len(positions) <= DcaMaxPositions

\* a run_iteration, a full interval after the last investment, that did not
\* invest because max_positions are held
C19_Witness ==
    /\ strategy = "dca"
    /\ st_ret.op = "run_iteration"
    /\ is_trading_active
    /\ Len(positions) = DcaMaxPositions
    /\ now - last_investment_time >= IntervalHours * 3600
    /\ st_ret.side # "buy"

\* C20: a DCA take-profit check that sells at current price p removes
\* exactly the positions whose individual profit
\* (p - entry_price)/entry_price*100 reaches take_profit_pct and keeps every
\* other position unchanged and in order; when no position reaches the
\* threshold, or no take-profit is configured, no order is submitted and the
\* position list is unchanged.
C20_TakeProfitRemovesExactly ==
    [][ ( /\ strategy = "dca"
          /\ st_ret'.op \in {"check_take_profit", "run_iteration"}
          /\ st_ret'.side # "buy" ) =>
          LET p == st_ret'.ticker.last
              reaches(pos) ==
                  (p - pos.entry_price) * 100 >= take_profit_pct * pos.entry_price
              kept(pos) == ~reaches(pos)
          IN  /\ st_ret'.side = "sell" =>
                    /\ st_ret'.orders = 1
                    /\ positions' = SelectSeq(positions, kept)
                    /\ Len(positions') < Len(positions)
              /\ ( \/ take_profit_pct = 0
                   \/ /\ st_ret'.ticker.ok
                      /\ p # PyNone
                      /\ \A i \in 1..Len(positions) : ~reaches(positions[i]) ) =>
                    /\ st_ret'.orders = 0
                    /\ positions' = positions ]_vars

\* of two positions the check sold the one bought lower and kept the other
C20_Witness ==
    /\ strategy = "dca"
    /\ st_ret.op = "check_take_profit"
    /\ st_ret.side = "sell"
    /\ st_ret.order_ok
    /\ Len(positions) = 1
    /\ positions[1].entry_price = st_ret.ticker.last


----------------------------------------------------------------------------
(* Arbitrage signals *)

\* a run_iteration() call of the arbitrage strategy has just returned
ArbitrageCall == strategy = "arbitrage" /\ st_ret.op = "run_iteration"

\* both exchanges answered with a price and the lower one is not 0
PricesReadable(ta, tb) ==
    /\ ta.ok /\ tb.ok
    /\ ta.last # PyNone /\ tb.last # PyNone
    /\ ta.last > 0 /\ tb.last > 0

\* the signal names the lower-priced exchange as the one to buy on and the
\* higher-priced one as the one to sell on, with their prices
NamesCheaperVenue(sig, ta, tb) ==
    /\ sig.buy_price < sig.sell_price
    /\ \/ /\ sig.buy_exchange = ExchangeA /\ sig.sell_exchange = ExchangeB
          /\ sig.buy_price = ta.last /\ sig.sell_price = tb.last
       \/ /\ sig.buy_exchange = ExchangeB /\ sig.sell_exchange = ExchangeA
          /\ sig.buy_price = tb.last /\ sig.sell_price = ta.last

\* C21 as stated: the arbitrage strategy signals 'arbitrage' only when the
\* spread between the two prices, as a percentage of the lower one, is
\* strictly above threshold_pct, the signal then buys on the lower-priced
\* exchange and sells on the higher-priced one, and every other signal is
\* 'none'.
C21_OnlyAboveThreshold ==
    ArbitrageCall =>
        LET sig == st_ret.details
            ta  == st_ret.ticker
            tb  == st_ret.ticker_b
        IN  IF sig.signal = "arbitrage"
            THEN /\ PricesReadable(ta, tb)
                 /\ (sig.sell_price - sig.buy_price) * 1000
                        > ThresholdPermille * sig.buy_price
                 /\ NamesCheaperVenue(sig, ta, tb)
            ELSE sig.signal = "none"

\* C21, amended: the arbitrage strategy (threshold_pct positive) signals
\* 'arbitrage' exactly when both prices are read, the lower one is above 0
\* and the spread, as a percentage of the lower price, is at least
\* threshold_pct; the signal then buys on the lower-priced exchange and sells
\* on the higher-priced one (buy_price < sell_price).  Otherwise the signal
\* is 'error' when a price could not be read or the lower price is 0, and
\* 'none' when the spread is below threshold_pct.
C21_AtLeastThreshold ==
    ArbitrageCall =>
        LET sig == st_ret.details
            ta  == st_ret.ticker
            tb  == st_ret.ticker_b
        IN  CASE sig.signal = "arbitrage" ->
                   /\ PricesReadable(ta, tb)
                   /\ (sig.sell_price - sig.buy_price) * 1000
                          >= ThresholdPermille * sig.buy_price
                   /\ NamesCheaperVenue(sig, ta, tb)
              [] sig.signal = "error" ->
                   \/ ~ta.ok \/ ~tb.ok
                   \/ ta.last = PyNone \/ tb.last = PyNone
                   \/ ta.last = 0 \/ tb.last = 0
              [] sig.signal = "none" ->
                   /\ PricesReadable(ta, tb)
                   /\ Abs(ta.last - tb.last) * 1000
                          < ThresholdPermille * IntMin(ta.last, tb.last)
              [] OTHER -> FALSE

\* a signal at a spread of exactly threshold_pct: 100.00 against 100.50
C21_Witness ==
    /\ ArbitrageCall
    /\ st_ret.details.signal = "arbitrage"
    /\ st_ret.details.buy_exchange = ExchangeB
    /\ st_ret.details.buy_price = Price(100)
    /\ st_ret.details.sell_price = Price(100) + 50

\* the prices of the scenario: 100 on exchange a, 102 on exchange b
ScenarioCall ==
    /\ ArbitrageCall
    /\ st_ret.ticker = TickerAt(Price(100))
    /\ st_ret.ticker_b = TickerAt(Price(102))

\* C22 as stated: for 100 on exchange a and 102 on exchange b (threshold
\* 0.5%) the signal buys on a, sells on b, and its spread_pct is about 1.96,
\* the difference relative to the higher price.
C22_SpreadOfHigher ==
    ScenarioCall =>
        /\ st_ret.details.signal = "arbitrage"
        /\ st_ret.details.buy_exchange = ExchangeA
        /\ st_ret.details.sell_exchange = ExchangeB
        /\ st_ret.details.spread_pct \in 195..197

\* C22, amended: for 100 on exchange a and 102 on exchange b (threshold
\* 0.5%) the signal buys on a, sells on b, and its spread_pct is 2.00, the
\* difference relative to the lower price.
C22_SpreadOfLower ==
    ScenarioCall =>
        /\ st_ret.details.signal = "arbitrage"
        /\ st_ret.details.buy_exchange = ExchangeA
        /\ st_ret.details.sell_exchange = ExchangeB
        /\ st_ret.details.spread_pct = 200

C22_Witness == ScenarioCall /\ st_ret.details.signal = "arbitrage"


----------------------------------------------------------------------------
(* Initial stop of a registered position *)

\* register_position has just returned
Registered == sl_ret.op = "register_position"

\* the position register_position has just stored
NewPosition == sl_positions[sl_ret.id]

\* the ATR computed during the registration, and whether it is a number
\* above 0 while the volatility adjustment is enabled
RegisteredAtr == AtrOf(sl_ret.frame)
BothCandidates ==
    /\ volatility_based_adjustment
    /\ RegisteredAtr.k = "num"
    /\ RegisteredAtr.v > 0

\* distance between the entry price and the percentage-based candidate, and
\* between the entry price and the ATR-based candidate
PctDistance == (NewPosition.entry_price * initial_stop_loss_pct) \div 100
AtrDistance == RegisteredAtr.v * AtrMultiplier

\* C23: when the ATR is 0 or not a number, or the volatility adjustment is
\* disabled, the initial stop of a registered position is the percentage
\* level alone: entry * (1 - pct/100) for a long, entry * (1 + pct/100) for
\* a short.
C23_PercentageAlone ==
    (Registered /\ ~BothCandidates) =>
        NewPosition.stop_loss_price * 100 =
            IF NewPosition.side = "long"
            THEN NewPosition.entry_price * (100 - initial_stop_loss_pct)
            ELSE NewPosition.entry_price * (100 + initial_stop_loss_pct)

\* a long at 100 with 2%, the volatility adjustment enabled but the ATR not
\* a number: the stop is 98
C23_Witness ==
    /\ Registered
    /\ volatility_based_adjustment
    /\ RegisteredAtr.k = "nan"
    /\ initial_stop_loss_pct = 2
    /\ NewPosition.side = "long"
    /\ NewPosition.entry_price = Price(100)
    /\ NewPosition.stop_loss_price = Price(98)

\* C24: when both candidates are available, the initial stop of a long is
\* the lower of the two candidates and the initial stop of a short is the
\* higher of the two.
C24_LowerForLong ==
    (Registered /\ BothCandidates) =>
        LET e == NewPosition.entry_price IN
        NewPosition.stop_loss_price =
            IF NewPosition.side = "long"
            THEN IntMin(e - PctDistance, e - AtrDistance)
            ELSE IntMax(e + PctDistance, e + AtrDistance)

\* a long whose percentage candidate is the lower one, and is the stop
C24_Witness ==
    /\ Registered /\ BothCandidates
    /\ NewPosition.side = "long"
    /\ PctDistance > AtrDistance
    /\ NewPosition.stop_loss_price = NewPosition.entry_price - PctDistance

\* C25 as stated: when both candidates are available, the distance between
\* the entry price and the initial stop is the smaller of the two candidate
\* distances, for long and for short positions.
C25_TighterOfTwo ==
    (Registered /\ BothCandidates) =>
        Abs(NewPosition.entry_price - NewPosition.stop_loss_price)
            = IntMin(PctDistance, AtrDistance)

\* C25, amended: when both candidates are available, the initial stop is
\* the wider of the two, the candidate farther from the entry price: the
\* distance between the entry price and the initial stop is the larger of
\* the two candidate distances, for long and for short positions.
C25_WiderOfTwo ==
    (Registered /\ BothCandidates) =>
        Abs(NewPosition.entry_price - NewPosition.stop_loss_price)
            = IntMax(PctDistance, AtrDistance)

\* a short whose ATR candidate is the farther one, and is the stop
C25_Witness ==
    /\ Registered /\ BothCandidates
    /\ NewPosition.side = "short"
    /\ AtrDistance > PctDistance
    /\ NewPosition.stop_loss_price = NewPosition.entry_price + AtrDistance


----------------------------------------------------------------------------
(* Market-condition score: repeated, missing and failing computations *)

\* update_market_condition has just returned
ScoreCall == engine_ret.op = "update_market_condition"

\* C26 as stated: whatever the two thresholds, consecutive updates that all
\* compute the same score change is_trading_active at most once.
C26_NoOscillation == ScoreCall => engine_ret.run_changes <= 1

\* C26, amended: when the minimum threshold is not above the resume
\* threshold, consecutive updates that all compute the same score change
\* is_trading_active at most once.
C26_NoOscillationInBand ==
    (ScoreCall /\ min_market_condition_score <= auto_resume_threshold) =>
        engine_ret.run_changes <= 1

\* an update that left the status alone after an earlier update computing
\* the same score had changed it
C26_Witness ==
    /\ ScoreCall
    /\ min_market_condition_score <= auto_resume_threshold
    /\ ~engine_ret.raised
    /\ engine_ret.run_changes = 1
    /\ is_trading_active = engine_ret.was_active

\* the frames of the last call that are not empty, and whether none is
PresentFrames == SelectSeq(engine_ret.frames, LAMBDA f : f # "empty")
AllMissing == PresentFrames = << >>

\* the four sub-scores are what the symbols with data alone add up to
MissingAddsNothing == engine_ret.sums = SubScoreSums(PresentFrames)

\* C27 as stated: a symbol without candle data adds 0 to each of the four
\* sub-scores, and when the data is missing for every symbol the stored
\* score is 0.
C27_AllMissingScoresZero ==
    ScoreCall =>
        /\ MissingAddsNothing
        /\ AllMissing => (~engine_ret.raised /\ market_condition_score = 0)

\* C27, amended: a symbol without candle data adds 0 to each of the four
\* sub-scores, and when the data is missing for every symbol the stored
\* (and returned) score is 20, the momentum sub-score 0 normalised to
\* (0 + 25) / 50 * 40.
C27_AllMissingScoresTwenty ==
    ScoreCall =>
        /\ MissingAddsNothing
        /\ AllMissing => /\ ~engine_ret.raised
                         /\ market_condition_score = 20
                         /\ engine_ret.returned = 20

\* a call for two symbols, both without data
C27_Witness ==
    /\ ScoreCall
    /\ Len(engine_ret.frames) = 2
    /\ AllMissing
    /\ market_condition_score = 20

\* C28: a failing update_market_condition leaves market_condition_score and
\* is_trading_active as they were and returns the previous score; a
\* succeeding call assigns the score once, the final clamped value, returns
\* it, and the trading status is re-evaluated against that new score.
C28_ScoreAtomic ==
    [][ engine_ret'.op = "update_market_condition" =>
          IF engine_ret'.raised
          THEN /\ market_condition_score' = market_condition_score
               /\ is_trading_active' = is_trading_active
               /\ engine_ret'.returned = market_condition_score
               /\ engine_ret'.writes = 0
          ELSE LET raw == RawScore(engine_ret'.frames)
                   new == market_condition_score'
               IN  /\ engine_ret'.writes = 1
                   /\ new = ClampScore(TruncDiv(raw.v, FP))
                   /\ engine_ret'.returned = new
                   /\ is_trading_active' =
                         IF ~is_trading_active /\ new >= auto_resume_threshold
                         THEN TRUE
                         ELSE IF is_trading_active
                                 /\ new < min_market_condition_score
                         THEN FALSE
                         ELSE is_trading_active ]_vars

\* a failing call while trading is active and a score is stored
C28_Witness ==
    /\ ScoreCall
    /\ engine_ret.raised
    /\ engine_ret.writes = 0
    /\ engine_ret.returned = market_condition_score
    /\ market_condition_score > 0
    /\ is_trading_active


----------------------------------------------------------------------------
(* Empty market data during an iteration *)

\* the call that has just returned read the market and got an empty result:
\* an empty frame in analyze_market, an empty ticker in the DCA iteration,
\* in check_and_rebalance or in the place_grid_orders of its rebalance
EmptyDataCall ==
    \/ /\ strategy \in PositionKinds
       /\ st_ret.op = "run_iteration"
       /\ st_ret.rows = "empty"
    \/ /\ strategy = "dca"
       /\ st_ret.op = "run_iteration"
       /\ st_ret.reads >= 1
       /\ ~st_ret.ticker.ok
    \/ /\ strategy = "grid"
       /\ st_ret.op = "check_and_rebalance"
       /\ \/ ~st_ret.ticker.ok
          \/ st_ret.reads = 2 /\ ~st_ret.ticker_b.ok

\* the result reports that nothing was done: action 'none', or, for the
\* grid, rebalanced False
NoActionResult ==
    IF strategy = "grid" THEN st_ret.reads = 1 ELSE st_ret.action = "none"

\* C29: when get_ohlcv or get_ticker answers an empty result during an
\* iteration of the momentum, scalping, swing or DCA strategy, during
\* check_and_rebalance of the grid or during check_positions of the
\* stop-loss module, no order is submitted, the component's state is what it
\* was, and the call returns a result that reports no action (for
\* check_positions the empty list) instead of raising or reporting an error.
C29_EmptyDataIsNoAction ==
    /\ [][ EmptyDataCall' =>
             /\ st_ret'.orders = 0
             /\ UNCHANGED <<positionVars, dcaVars, gridVars, active_trades,
                            live_orders>>
             /\ ~st_ret'.raised
             /\ NoActionResult' ]_vars
    /\ [][ ( /\ sl_ret'.op = "check_positions"
             /\ now' = now
             /\ ~sl_ret'.ticker.ok ) =>
             /\ sl_ret'.returned = << >>
             /\ UNCHANGED <<sl_positions, sl_order, breakeven_moves>> ]_vars


----------------------------------------------------------------------------
(* Exits before entries *)

\* C30: while a position is open, analyze_market of the momentum, scalping
\* and swing strategies never returns a buy signal; and for momentum and
\* swing the stop loss is looked at first, so that whenever the analysis
\* finds the current price at or below stop_loss_price the signal is a sell
\* whose reason is the stop loss, whatever the take-profit level and the
\* indicators say.
C30_ExitsBeforeEntries ==
    [][ ( /\ strategy \in PositionKinds
          /\ st_ret'.op = "run_iteration"
          /\ active_position # "None" ) =>
          /\ st_ret'.signal.signal # "buy"
          /\ ( /\ strategy \in {"momentum", "swing"}
               /\ st_ret'.rows = "many"
               /\ st_ret'.signal.price <= stop_loss_price ) =>
                  /\ st_ret'.signal.signal = "sell"
                  /\ st_ret'.signal.reason = "stop_loss" ]_vars

\* a swing position sold on its stop loss
C30_Witness ==
    /\ strategy = "swing"
    /\ st_ret.op = "run_iteration"
    /\ st_ret.action = "sell"
    /\ st_ret.signal.reason = "stop_loss"
    /\ active_position = "None"

----------------------------------------------------------------------------
(* C31: a triggered position *)

\* C31: TRIGGERED is terminal: once a tracked position is flagged triggered,
\* no operation of the module clears the flag or changes its
\* stop_loss_price; the position can only leave tracking, and only by
\* check_positions or remove_position.
C31_TriggeredIsTerminal ==
    [][ \A id \in DOMAIN sl_positions :
            sl_positions[id].stop_loss_triggered =>
                IF id \in DOMAIN sl_positions'
                THEN /\ sl_positions'[id].stop_loss_triggered
                     /\ sl_positions'[id].stop_loss_price =
                            sl_positions[id].stop_loss_price
                ELSE sl_ret'.op \in {"check_positions", "remove_position"}
      ]_vars

----------------------------------------------------------------------------
(* C32: strategies sharing an Engine *)

\* the order (side and amount) the strategy submits when its next analysis
\* gives signal and get_balance answers bal
PendingOrder(signal, bal) ==
    LET out == ExecuteSignalOutcome(strategy, signal, bal,
                                    [ticker |-> TickerEmpty, ok |-> FALSE])
    IN  [side |-> out.side, amount |-> out.amount]

\* C32: strategies sharing one Engine are independent: an order of another
\* strategy, on the same symbol or not, changes nothing in the orders (side
\* and amount) this strategy submits on the same market data, trading-active
\* value and balance, so its sequence of orders is the one of a run alone.
C32_Independent ==
    [][ ( /\ engine_ret'.op = "execute_trade"
          /\ st_ret'.op = "init"
          /\ UNCHANGED <<now, trading_mode, is_trading_active, positionVars>> ) =>
          \A signal \in Signals, bal \in BalanceAnswers :
              PendingOrder(signal, bal)' = PendingOrder(signal, bal) ]_vars

----------------------------------------------------------------------------
(* C33: the Engine's flag gates entries *)

\* the buy trades of the registry
BuyTrades(trades) == {id \in DOMAIN trades : trades[id].side = "buy"}

\* C33: a run_iteration of the momentum, scalping, swing or DCA strategy
\* that starts while is_trading_active is false submits no buy order and
\* opens no position, whether or not a position is held and whatever the
\* market data say.
C33_InactiveNoBuy ==
    [][ ( /\ strategy \in GatedKinds
          /\ st_ret'.op = "run_iteration"
          /\ ~is_trading_active ) =>
          /\ st_ret'.side # "buy"
          /\ st_ret'.action # "buy"
          /\ BuyTrades(active_trades') = BuyTrades(active_trades)
          /\ active_position' = "long" =>
                /\ active_position = "long"
                /\ position_entry_time' = position_entry_time
                /\ position_entry_price' = position_entry_price
          /\ Len(positions') <= Len(positions) ]_vars

\* an iteration on a full frame that started with the Engine inactive and
\* a position held, and left the position open
C33_Witness ==
    /\ ~is_trading_active
    /\ st_ret.op = "run_iteration"
    /\ st_ret.rows = "many"
    /\ st_ret.action = "none"
    /\ active_position = "long"

----------------------------------------------------------------------------
(* C34: the amount sold when a position is closed *)

\* the registry entry of the buy that opened the position now held: in
\* paper mode its id carries the entry time, in live mode it is the last
\* order the exchange accepted
EntryTrade ==
    IF trading_mode = "live"
    THEN active_trades[<<"live", live_orders>>]
    ELSE active_trades[<<"paper", position_entry_time, "buy", StripSlash(Symbol)>>]

\* C34: when a momentum, scalping or swing strategy closes its position, the
\* amount it submits for sale is its open exposure, the amount bought when
\* the position now open was entered, whatever earlier trades (closed round
\* trips of the same strategy included) the registry holds.
C34_SellsOpenExposure ==
    [][ ( /\ strategy \in PositionKinds
          /\ st_ret'.op \in {"run_iteration", "execute_signal"}
          /\ st_ret'.side = "sell" ) =>
          st_ret'.amount = EntryTrade.amount ]_vars

----------------------------------------------------------------------------
(* C35: no trailing before the breakeven migration *)

\* C35: the trailing adjustment only acts on a position whose stop was
\* already moved by the breakeven migration: over update_position and
\* check_positions a position whose stop_loss_updated is still false keeps
\* its stop_loss_price, so with the time-based adjustment disabled the stop
\* never moves, whatever trailing_stop_pct is and however far the price runs.
C35_TrailingAfterBreakeven ==
    [][ ( /\ sl_ret'.op \in {"update_position", "check_positions"}
          /\ now' = now ) =>
          \A id \in DOMAIN sl_positions \cap DOMAIN sl_positions' :
              /\ ~sl_positions'[id].stop_loss_updated =>
                    sl_positions'[id].stop_loss_price =
                        sl_positions[id].stop_loss_price
              /\ ~time_based_adjustment =>
                    /\ ~sl_positions'[id].stop_loss_updated
                    /\ sl_positions'[id].stop_loss_price =
                           sl_positions[id].stop_loss_price ]_vars

\* a long position under a trailing percentage, without the time-based
\* adjustment, whose price ran ten percent above the entry after a day and
\* whose stop is still below the entry
C35_Witness ==
    /\ trailing_stop_pct # 0
    /\ ~time_based_adjustment
    /\ sl_ret.op = "update_position"
    /\ \E id \in DOMAIN sl_positions :
          /\ sl_positions[id].side = "long"
          /\ now - sl_positions[id].entry_time >= BreakevenHours * SecondsPerHour
          /\ sl_positions[id].current_price = Price(110)
          /\ sl_positions[id].highest_price = Num(Price(110))
          /\ ~sl_positions[id].stop_loss_updated
          /\ sl_positions[id].stop_loss_price < sl_positions[id].entry_price

----------------------------------------------------------------------------
(* C36: the time limit of a scalping position *)

\* C36: a scalping position open for at least max_trade_duration minutes is
\* sold by the next run_iteration that analyses a frame of candles: the
\* signal is a sell whatever the price, the indicators and the Engine's
\* flag, a sell order is submitted, and the position is closed when the
\* order succeeds (and kept when it fails).
C36_TimeLimitSells ==
    [][ ( /\ strategy = "scalping"
          /\ st_ret'.op = "run_iteration"
          /\ active_position = "long"
          /\ now - position_entry_time >= MaxTradeDuration * 60
          /\ st_ret'.rows # "empty"
          /\ ~st_ret'.raised ) =>
          /\ st_ret'.signal.signal = "sell"
          /\ st_ret'.orders = 1
          /\ st_ret'.side = "sell"
          /\ st_ret'.order_ok => active_position' = "None"
          /\ ~st_ret'.order_ok => active_position' = "long" ]_vars

\* a scalping position sold on its time limit, at the entry price and with
\* the Engine inactive
C36_Witness ==
    /\ strategy = "scalping"
    /\ ~is_trading_active
    /\ st_ret.op = "run_iteration"
    /\ st_ret.signal.reason = "time_limit"
    /\ st_ret.signal.price = Price(100)
    /\ st_ret.action = "sell"
    /\ active_position = "None"

----------------------------------------------------------------------------
(* C37: the position fields of the momentum and swing strategies *)

\* C37: in every reachable state of a momentum or swing strategy
\* active_position is None or 'long'; the entry price, the entry time,
\* stop_loss_price and take_profit_price are all set when it is 'long' and
\* all None otherwise; and while the position is open
\* stop_loss_price < position_entry_price < take_profit_price.
C37_PositionFieldsConsistent ==
    strategy \in {"momentum", "swing"} =>
        /\ active_position \in {"None", "long"}
        /\ active_position = "long" =>
              /\ position_entry_time # PyNone
              /\ position_entry_price # PyNone
              /\ stop_loss_price # PyNone
              /\ take_profit_price # PyNone
              /\ stop_loss_price < position_entry_price
              /\ position_entry_price < take_profit_price
        /\ active_position = "None" =>
              /\ position_entry_time = PyNone
              /\ position_entry_price = PyNone
              /\ stop_loss_price = PyNone
              /\ take_profit_price = PyNone

\* a swing position opened again after an earlier one was sold
C37_Witness ==
    /\ strategy = "swing"
    /\ active_position = "long"
    /\ st_ret.action = "buy"
    /\ \E id \in DOMAIN active_trades : active_trades[id].side = "sell"

----------------------------------------------------------------------------
(* C38: buys and sells alternate *)

\* C38: the successful orders of one momentum, scalping or swing strategy
\* alternate buy, sell, buy, ..., starting with a buy: a buy is only
\* submitted while no position is open and, when it succeeds, opens one; a
\* sell is only submitted while a position is open and, when it succeeds,
\* closes it; and the position changes in no other step.
C38_OrdersAlternate ==
    [][ (strategy \in PositionKinds) =>
          /\ st_ret'.orders > 0 =>
                /\ st_ret'.side \in {"buy", "sell"}
                /\ st_ret'.side = "buy" => active_position = "None"
                /\ st_ret'.side = "sell" => active_position = "long"
                /\ st_ret'.order_ok =>
                      active_position' =
                          (IF st_ret'.side = "buy" THEN "long" ELSE "None")
          /\ active_position' # active_position =>
                (st_ret'.orders > 0 /\ st_ret'.order_ok) ]_vars

\* a momentum iteration that sold the position an earlier iteration bought
C38_Witness ==
    /\ strategy = "momentum"
    /\ st_ret.op = "run_iteration"
    /\ st_ret.side = "sell"
    /\ st_ret.order_ok
    /\ active_position = "None"
    /\ \E id \in DOMAIN active_trades : active_trades[id].side = "buy"

----------------------------------------------------------------------------
(* C39: the flag agrees with the stored score *)

\* C39: when min_market_condition_score <= auto_resume_threshold, after
\* every successful update_market_condition the flag is consistent with the
\* stored score: active implies score >= min_market_condition_score, and
\* inactive implies score < auto_resume_threshold.
C39_FlagConsistentWithScore ==
    [][ ( /\ engine_ret'.op = "update_market_condition"
          /\ ~engine_ret'.raised
          /\ min_market_condition_score <= auto_resume_threshold ) =>
          /\ is_trading_active' =>
                market_condition_score' >= min_market_condition_score
          /\ ~is_trading_active' =>
                market_condition_score' < auto_resume_threshold ]_vars

\* trading still active after an update that stored a score inside the band
C39_Witness ==
    /\ engine_ret.op = "update_market_condition"
    /\ ~engine_ret.raised
    /\ engine_ret.was_active
    /\ is_trading_active
    /\ min_market_condition_score < auto_resume_threshold
    /\ market_condition_score >= min_market_condition_score
    /\ market_condition_score < auto_resume_threshold

----------------------------------------------------------------------------
(* C40: the amount a strategy records and the amount executed *)

\* the registry entry of the order the strategy call just made: in paper
\* mode its id carries the time, the side and the symbol, in live mode it
\* is the last order the exchange accepted
OrderOfCall ==
    IF trading_mode = "live"
    THEN active_trades[<<"live", live_orders>>]
    ELSE active_trades[<<"paper", now, st_ret.side, StripSlash(Symbol)>>]

\* C40: for every order a strategy submits successfully, the amount the
\* strategy records or reports for it (the DCA position amount, the DCA
\* take-profit total, the grid order size, the amount returned by
\* momentum, scalping and swing) is the amount the Engine executed and
\* recorded in the registry under that order id.
C40_RecordedIsExecuted ==
    [][ /\ ( /\ strategy \in GatedKinds
             /\ st_ret'.op \in {"run_iteration", "execute_signal",
                                "check_take_profit"}
             /\ st_ret'.order_ok ) =>
             /\ st_ret'.amount = OrderOfCall'.amount
             /\ (strategy = "dca" /\ st_ret'.side = "buy") =>
                    positions'[Len(positions')].amount = OrderOfCall'.amount
        /\ ( /\ strategy = "grid"
             /\ st_ret'.op \in {"place_grid_orders", "check_and_rebalance"} ) =>
             \A id \in DOMAIN grid_orders' :
                 grid_orders'[id].size = active_trades'[id].amount ]_vars

====
